---- MODULE Spec2Model ----
(***************************************************************************)
(* Model of the completeness-gated sweep controller run_all of the AMIS    *)
(* scraper (src/unnamed/part_000) together with the progress store and the *)
(* session recovery it uses.  The browser (set_filters, the status         *)
(* element, scrape_table, cookie clearing, driver creation and quit) is    *)
(* the environment: every call into it is a nondeterministic choice over   *)
(* the results the call can give.  Writing the CSV exports and the         *)
(* progress file succeeds in Spec and can fail in FaultySpec; a write of   *)
(* the progress file is two steps (truncate, dump), so that the states in  *)
(* between are visible.                                                    *)
(*                                                                         *)
(* The parts of the browser protocol are modelled as calls of their own,   *)
(* each with its own specification: the row loop of scrape_table           *)
(* (TableSpec), _set_select_value with its three strategies (SelectSpec),  *)
(* _set_date_in_calendar and _set_dates of src/scrap_data.py and of        *)
(* DatePickerHandler (DateSpec), and set_filters (FilterSpec).  While one  *)
(* of them runs the others are at rest.  The page and the date widget are  *)
(* the environment; the widget writes a date field as YYYY-MM-DD.          *)
(***************************************************************************)
EXTENDS Integers, Sequences, FiniteSets, TLC

(* ------------------------------ bounds --------------------------------- *)
MaxPrior == 1
MaxTotal == 2
MaxRows == 1

(* ------------------------- program constants --------------------------- *)
MAX_RETRIES == 3

NONE == "None"

\* the three input lists of run_all: those of the odometer example
counties == <<"A", "B">>
markets == <<"X", "Y">>
products == <<"P", "Q">>

\* a cell recorded by an earlier run over other lists
ForeignCell == <<"Z", "X", "P">>
\* cells whose market, or product, is in none of the lists of this run
ForeignMarketCell == <<"A", "Z", "P">>
ForeignProductCell == <<"A", "X", "Z">>

(* ------------------------------ helpers -------------------------------- *)
Contains(list, x) == \E i \in 1..Len(list) : list[i] = x

\* list.index(x), 0-based; defined when Contains(list, x)
IndexOf(list, x) ==
    CHOOSE i \in 0..(Len(list) - 1) :
        /\ list[i + 1] = x
        /\ \A j \in 0..(i - 1) : list[j + 1] # x

Range(s) == {s[i] : i \in 1..Len(s)}

\* all cells of counties x markets x products in nested order
NumCells == Len(counties) * Len(markets) * Len(products)
CellAt(n) ==
    <<counties[((n - 1) \div (Len(markets) * Len(products))) + 1],
      markets[(((n - 1) \div Len(products)) % Len(markets)) + 1],
      products[((n - 1) % Len(products)) + 1]>>
AllCells == [n \in 1..NumCells |-> CellAt(n)]

(* --------------------------- progress store ---------------------------- *)
DefaultProgress ==
    [last_county |-> NONE, last_market |-> NONE, last_product |-> NONE,
     completed |-> <<>>]

\* a progress record as _save_progress leaves it: the cursor is the cell
\* appended last
RecordOf(done) ==
    IF done = <<>> THEN DefaultProgress
    ELSE [last_county |-> done[Len(done)][1],
          last_market |-> done[Len(done)][2],
          last_product |-> done[Len(done)][3],
          completed |-> done]

\* the completed sequences an earlier run can have left: up to MaxPrior
\* distinct cells in any order
PriorSeqs ==
    {s \in UNION {[1..n -> Range(AllCells)] : n \in 0..MaxPrior} :
        \A i, j \in 1..Len(s) : i # j => s[i] # s[j]}

ProgressFiles ==
    {[state |-> "missing", data |-> DefaultProgress],
     [state |-> "corrupt", data |-> DefaultProgress],
     [state |-> "ok", data |-> RecordOf(<<ForeignCell>>)],
     [state |-> "ok", data |-> RecordOf(<<ForeignMarketCell>>)],
     [state |-> "ok", data |-> RecordOf(<<ForeignProductCell>>)]}
    \cup {[state |-> "ok", data |-> RecordOf(s)] : s \in PriorSeqs}

LoadProgress(file) ==
    IF file.state = "ok" THEN file.data ELSE DefaultProgress

InCompletedMutNever(completed, county, market, product) == FALSE

\* the any(...) test of the skip check
InCompleted(completed, county, market, product) ==
    \E i \in 1..Len(completed) :
        /\ completed[i][1] = county
        /\ completed[i][2] = market
        /\ completed[i][3] = product

(* ----------------------------- data frames ----------------------------- *)
NoDf == [none |-> TRUE, rows |-> 0, cols |-> 0]
\* scrape_table gives None when it finds no body row; a frame whose cells
\* are all null loses every column to dropna and has cols = 0
DataFrames ==
    {NoDf} \cup {[none |-> FALSE, rows |-> r, cols |-> c] :
                    r \in 1..MaxRows, c \in 0..1}
\* df.empty: some axis has length 0
DfEmpty(d) == d.rows = 0 \/ d.cols = 0

NoTotal == <<>>
Totals == {NoTotal} \cup {<<n>> : n \in 0..MaxTotal}
\* Python truth value of an Optional[int]
Truthy(t) == t # NoTotal /\ t[1] # 0

VerifyDataCompletenessMutNonEmpty(d, expected_count) ==
    ~(d.none \/ DfEmpty(d))

VerifyDataCompletenessMutNoEmptyTest(d, expected_count) ==
    IF d.none THEN FALSE
    ELSE IF d.rows < expected_count THEN FALSE
    ELSE TRUE

\* _verify_data_completeness
VerifyDataCompleteness(d, expected_count) ==
    IF d.none \/ DfEmpty(d) THEN FALSE
    ELSE IF d.rows < expected_count THEN FALSE
    ELSE TRUE

RetryAllowedMutOneMore(rc) == rc <= MAX_RETRIES

\* the condition of the while loop around one cell's attempts
RetryAllowed(rc) == rc < MAX_RETRIES

(* ------------------------------- state --------------------------------- *)
VARIABLES
    resume,         \* the resume argument
    progressFile,   \* the progress file on disk
    progress,       \* self.progress
    loaded,         \* history: self.progress as loaded at construction
    start_idx,      \* the start_idx dict
    county_idx, market_idx, product_idx,
    retry_count,
    total_entries,
    df,
    all_data,       \* cells whose tagged tables were appended to all_data
    driverLive,     \* self.driver is a session that has not been quit
    pc,
    exitKind,       \* "none", "normal", "setup_error", "cell_exception"
    result,         \* the value run_all returned
    finalExport,    \* the consolidated export, <<>> while not written
    exports,        \* history: cells with a per-cell export on disk
    verified,       \* history: cells that passed the completeness check
    considered,     \* history: cells the product loop reached
    scraped,        \* history: cells for which set_filters was called
    attempts,       \* history: attempts started on the current cell
    refreshed,      \* history: _refresh_session returned since last attempt
    outcome,        \* history: how the current cell left its retry loop
    quitCalled      \* history: the finally clause called driver.quit

\* one call of scrape_table (the row loop of the table extractor)
VARIABLES
    headers,        \* the header texts, in order
    rows,           \* the body rows found: each the texts of its td cells
    data,           \* the result rows appended so far
    table_pc,       \* "idle", "rows", "frame", "returned", "failed"
    table_df        \* the value scrape_table returned

tableVars == <<headers, rows, data, table_pc, table_df>>

\* one call of _set_select_value
VARIABLES
    sel_value,       \* the value argument
    sel_max_retries, \* the max_retries argument
    sel_attempt,     \* passes of the attempt loop begun so far
    sel_stale,       \* passes of the inner lookup loop that ended stale
    sel_options,     \* the option texts found in the current attempt
    sel_selected,    \* the text of the field's first selected option
    sel_readback,    \* the selected text was read after the last selection
    sel_tried,       \* the strategies tried in the current attempt
    sel_pc,
    sel_result       \* the value _set_select_value returned

selectVars == <<sel_value, sel_max_retries, sel_attempt, sel_stale,
                sel_options, sel_selected, sel_readback, sel_tried, sel_pc,
                sel_result>>

sweepVars == <<resume, progressFile, progress, loaded, start_idx, county_idx,
          market_idx, product_idx, retry_count, total_entries, df, all_data,
          driverLive, pc, exitKind, result, finalExport, exports, verified,
          considered, scraped, attempts, refreshed, outcome,
          quitCalled>>

\* one call of _set_dates
VARIABLES
    date_variant,    \* "scraper": AMISScraper; "handler": DatePickerHandler
    start_date,      \* the start_date argument
    end_date,        \* the end_date argument
    dates_pc,
    dates_attempt,   \* passes of the attempt loop begun so far
    dates_retry,     \* calls of the calendar setter made for the current field
    dates_start_ok,  \* the start date was set in the current attempt
    start_value,     \* the value of the field dateStartSearch
    end_value,       \* the value of the field dateEndSearch
    dates_result,    \* the value _set_dates returned
    ui_log           \* history: the steps taken on the page, in order

datesVars == <<date_variant, start_date, end_date, dates_pc, dates_attempt,
               dates_retry, dates_start_ok, start_value, end_value,
               dates_result, ui_log>>

\* one call of _set_date_in_calendar
VARIABLES
    cal_date_str,    \* the date_str argument
    cal_reliable,    \* the widget moves one month per click and never fails
    cal_pc,
    nav_attempts,    \* attempts of the navigation loop
    cal_current,     \* the month and year of the caption
    cal_initial,     \* history: the caption when the calendar opened
    cal_value,       \* the value of the date field
    cal_ui,          \* history: the page was looked at or acted on
    cal_click,       \* history: the last click on next or previous
    cal_day_clicked, \* history: the day cell was clicked
    cal_nav,         \* history: "none", "reached", "failed"
    cal_result       \* the value _set_date_in_calendar returned

calVars == <<cal_date_str, cal_reliable, cal_pc, nav_attempts, cal_current,
             cal_initial, cal_value, cal_ui, cal_click, cal_day_clicked,
             cal_nav, cal_result>>

\* one call of set_filters
VARIABLES
    flt_pc,
    flt_done,        \* history: the steps that succeeded
    flt_failed,      \* history: the step that failed, "none" if none did
    flt_click,       \* passes of the loop of _retry_click_filter_button
    flt_result       \* the value set_filters returned

filterVars == <<flt_pc, flt_done, flt_failed, flt_click, flt_result>>

\* one call of the paginated scrape_table of scrap_data.py
VARIABLES
    pages,           \* the result pages: the number of data rows of each
    pg_shown,        \* the page the browser shows
    page_num,
    pg_all_data,     \* all_data: the page frames kept so far
    pg_pc,
    pg_result,       \* the value scrape_table returned
    pg_ui_error      \* history: a browser call raised during this call

pageVars == <<pages, pg_shown, page_num, pg_all_data, pg_pc, pg_result,
              pg_ui_error>>

\* one call of _save_final_results
VARIABLES
    fin_all_data,    \* the all_data argument: the tagged tables of the cells
    fin_pc,
    final_df

finalVars == <<fin_all_data, fin_pc, final_df>>

\* one call of _optimize_entries
VARIABLES
    opt_total,       \* the total_entries argument
    opt_pc,
    optimal_entries  \* the value returned

optVars == <<opt_total, opt_pc, optimal_entries>>

\* calls of _refresh_session on one scraper, one after the other
VARIABLES
    ses_live,        \* self.driver is a session that has not been quit
    ses_pc,
    ses_calls,       \* the calls made so far
    ses_tier1,       \* history of this call: cookies, reload, page-ready
    ses_quit,        \* history of this call: quitting the old driver
    ses_create       \* history of this call: creating the new driver

sessionVars == <<ses_live, ses_pc, ses_calls, ses_tier1, ses_quit,
                 ses_create>>

\* construction (_load_progress) and the start of run_all
VARIABLES
    st_file,         \* the progress file on disk
    st_resume,       \* the resume argument
    st_progress,     \* self.progress
    st_pc,
    st_start         \* the start_idx dict

startVars == <<st_file, st_resume, st_progress, st_pc, st_start>>

\* one run of run_all of scrap_data.py
VARIABLES
    v_resume,        \* the resume argument
    v_progress,      \* self.progress
    start_index,     \* the start_index dict
    v_county_idx, v_market_idx, v_product_idx,
    v_pc,
    v_all_data,      \* the cells whose tables were appended to all_data
    v_filtered,      \* history: the cells passed to set_filters
    v_loop_starts,   \* history: where each product loop started
    v_ends           \* history: how the cells of the first product loop ended

variantVars == <<v_resume, v_progress, start_index, v_county_idx,
                 v_market_idx, v_product_idx, v_pc, v_all_data, v_filtered,
                 v_loop_starts, v_ends>>

\* one cell of the sweep of part_000 on a reliable UI
VARIABLES
    rc_total,        \* the rows the query has
    rc_pc,
    rc_retry,        \* retry_count
    rc_optimal,      \* optimal_entries
    rc_df,           \* the rows scrape_table returned
    rc_outcome

cellVars == <<rc_total, rc_pc, rc_retry, rc_optimal, rc_df, rc_outcome>>

\* file writes that have failed in the sweep
VARIABLES
    faults
faultVars == <<faults>>

\* main: the run_all call in progress, 1 the test run and 2 the full run
VARIABLES
    run_no
mainVars == <<run_no>>

\* network_retry: the arguments of the decorator, the locals of wrapper, the
\* outcomes of the invocations of func and the sleeps between them
VARIABLES
    nr_max,         \* max_attempts
    nr_delay,       \* delay
    nr_attempts,    \* attempts
    nr_pc,
    nr_calls,       \* what each invocation of func did, in order
    nr_slept,       \* the arguments of time.sleep, in order
    nr_result       \* how wrapper ended
retryVars == <<nr_max, nr_delay, nr_attempts, nr_pc, nr_calls, nr_slept,
               nr_result>>
lateVars == <<faultVars, mainVars, retryVars>>

\* the calls modelled on their own besides the browser protocol
browserVars == <<tableVars, selectVars, datesVars, calVars, filterVars>>

unitVars == <<pageVars, finalVars, optVars, sessionVars, startVars,
              variantVars, cellVars, lateVars>>

\* the variables of the components a sweep step leaves alone
componentVars == <<tableVars, selectVars, datesVars, calVars, filterVars,
                   unitVars>>

vars == <<sweepVars, componentVars>>

loopVars == <<start_idx, county_idx, market_idx, product_idx>>
fileVars == <<progressFile, progress, exports, verified, all_data>>
exitVars == <<exitKind, result, finalExport, quitCalled>>
inputVars == <<resume, loaded, componentVars>>
attemptVars == <<retry_count, total_entries, df, attempts, refreshed,
                 outcome>>

county == counties[county_idx + 1]
market == markets[market_idx + 1]
product == products[product_idx + 1]
cell == <<county, market, product>>

NoResult == [none |-> TRUE, tables |-> <<>>]

SweepInit ==
    /\ resume \in BOOLEAN
    /\ progressFile \in ProgressFiles
    /\ progress = LoadProgress(progressFile)
    /\ loaded = progress
    /\ start_idx = [county |-> 0, market |-> 0, product |-> 0]
    /\ county_idx = 0 /\ market_idx = 0 /\ product_idx = 0
    /\ retry_count = 0
    /\ total_entries = NoTotal
    /\ df = NoDf
    /\ all_data = <<>>
    /\ driverLive = TRUE
    /\ pc = "setup"
    /\ exitKind = "none"
    /\ result = NoResult
    /\ finalExport = <<>>
    /\ exports = {}
    /\ verified = {}
    /\ considered = <<>>
    /\ scraped = <<>>
    /\ attempts = 0
    /\ refreshed = FALSE
    /\ outcome = "none"
    /\ quitCalled = FALSE

\* no call of scrape_table is under way
TableIdle ==
    /\ headers = <<>>
    /\ rows = <<>>
    /\ data = <<>>
    /\ table_pc = "idle"
    /\ table_df = NoDf

\* no call of _set_select_value is under way
SelectIdle ==
    /\ sel_value = <<>>
    /\ sel_max_retries = 0
    /\ sel_attempt = 0
    /\ sel_stale = 0
    /\ sel_options = <<>>
    /\ sel_selected = <<>>
    /\ sel_readback = FALSE
    /\ sel_tried = <<>>
    /\ sel_pc = "idle"
    /\ sel_result = FALSE

\* a date field without a value; date strings are records of the three
\* numbers between the hyphens and whether one-digit numbers are
\* zero-padded
EmptyField == [f1 |-> 0, f2 |-> 0, f3 |-> 0, pad |-> TRUE]

\* no call of _set_dates is under way
DatesIdle ==
    /\ date_variant = "scraper"
    /\ start_date = EmptyField
    /\ end_date = EmptyField
    /\ dates_pc = "idle"
    /\ dates_attempt = 0
    /\ dates_retry = 0
    /\ dates_start_ok = FALSE
    /\ start_value = EmptyField
    /\ end_value = EmptyField
    /\ dates_result = FALSE
    /\ ui_log = <<>>

\* no call of set_filters is under way
FilterIdle ==
    /\ flt_pc = "idle"
    /\ flt_done = {}
    /\ flt_failed = "none"
    /\ flt_click = 0
    /\ flt_result = FALSE

NoCaption == [year |-> 0, month |-> 0]
NoClick == [dir |-> "none", from |-> NoCaption]

\* no call of _set_date_in_calendar is under way
CalendarIdle ==
    /\ cal_date_str = EmptyField
    /\ cal_reliable = TRUE
    /\ cal_pc = "idle"
    /\ nav_attempts = 0
    /\ cal_current = NoCaption
    /\ cal_initial = NoCaption
    /\ cal_value = EmptyField
    /\ cal_ui = FALSE
    /\ cal_click = NoClick
    /\ cal_day_clicked = FALSE
    /\ cal_nav = "none"
    /\ cal_result = FALSE

\* a frame of rows, and None
NoFrame == [none |-> TRUE, rows |-> <<>>]
Frame(rs) == [none |-> FALSE, rows |-> rs]

PageIdle ==
    /\ pages = <<>>
    /\ pg_shown = 0
    /\ page_num = 0
    /\ pg_all_data = <<>>
    /\ pg_pc = "idle"
    /\ pg_result = NoFrame
    /\ pg_ui_error = FALSE

FinalIdle ==
    /\ fin_all_data = <<>>
    /\ fin_pc = "idle"
    /\ final_df = NoFrame

OptIdle ==
    /\ opt_total = NoTotal
    /\ opt_pc = "idle"
    /\ optimal_entries = 0

BrowserIdle ==
    /\ TableIdle /\ SelectIdle /\ DatesIdle /\ CalendarIdle /\ FilterIdle

SessionIdle ==
    /\ ses_live = TRUE
    /\ ses_pc = "idle"
    /\ ses_calls = 0
    /\ ses_tier1 = "none"
    /\ ses_quit = "none"
    /\ ses_create = "none"

StartIdle ==
    /\ st_file = [state |-> "missing", data |-> DefaultProgress]
    /\ st_resume = FALSE
    /\ st_progress = DefaultProgress
    /\ st_pc = "idle"
    /\ st_start = [county |-> 0, market |-> 0, product |-> 0]

VariantIdle ==
    /\ v_resume = FALSE
    /\ v_progress = DefaultProgress
    /\ start_index = [counties |-> 0, markets |-> 0, products |-> 0]
    /\ v_county_idx = 0
    /\ v_market_idx = 0
    /\ v_product_idx = 0
    /\ v_pc = "idle"
    /\ v_all_data = <<>>
    /\ v_filtered = <<>>
    /\ v_loop_starts = <<>>
    /\ v_ends = {}

CellIdle ==
    /\ rc_total = 0
    /\ rc_pc = "idle"
    /\ rc_retry = 0
    /\ rc_optimal = 0
    /\ rc_df = 0
    /\ rc_outcome = "none"

FaultIdle == faults = 0

MainIdle == run_no = 1

RetryIdle ==
    /\ nr_max = 0
    /\ nr_delay = 0
    /\ nr_attempts = 0
    /\ nr_pc = "idle"
    /\ nr_calls = <<>>
    /\ nr_slept = <<>>
    /\ nr_result = [kind |-> "none", value |-> 0]

UnitsIdle ==
    /\ PageIdle
    /\ FinalIdle
    /\ OptIdle
    /\ SessionIdle
    /\ StartIdle
    /\ VariantIdle
    /\ CellIdle
    /\ FaultIdle
    /\ MainIdle
    /\ RetryIdle

\* every unit but the named one is at rest
UnitsIdleExcept(unit) ==
    /\ unit # "page" => PageIdle
    /\ unit # "final" => FinalIdle
    /\ unit # "opt" => OptIdle
    /\ unit # "session" => SessionIdle
    /\ unit # "start" => StartIdle
    /\ unit # "variant" => VariantIdle
    /\ unit # "cell" => CellIdle
    /\ FaultIdle
    /\ MainIdle
    /\ unit # "retry" => RetryIdle

Init ==
    /\ SweepInit
    /\ TableIdle /\ SelectIdle /\ DatesIdle /\ CalendarIdle /\ FilterIdle
    /\ UnitsIdle

tableOthers == <<sweepVars, selectVars, datesVars, calVars, filterVars,
                 unitVars>>
selectOthers == <<sweepVars, tableVars, datesVars, calVars, filterVars,
                  unitVars>>

(* ------------------------- session recovery ---------------------------- *)
\* _reinitialize_driver: quit (an error is swallowed), then a new driver;
\* it raises exactly when creating the new driver raises, and then
\* self.driver is still the old driver
ReinitializeDriver(raises) ==
    \E quitOk, initOk \in BOOLEAN :
        /\ raises = ~initOk
        /\ driverLive' = IF initOk THEN TRUE
                         ELSE IF quitOk THEN FALSE ELSE driverLive

\* _refresh_session: cookies, reload, page-ready; on any error reinitialize
RefreshSession(raises) ==
    \/ /\ driverLive
       /\ ~raises
       /\ driverLive' = driverLive
    \/ ReinitializeDriver(raises)

(* --------------------------- iteration setup --------------------------- *)
ResetProductMutKeep(si) == si

\* start_idx['product'] = 0
ResetProduct(si) == [si EXCEPT !.product = 0]

ResetMarketMutKeep(si) == si

\* start_idx['market'] = 0
ResetMarket(si) == [si EXCEPT !.market = 0]

\* Setup with index 0 for a cursor component that is not in its list
SetupMutIndexOrZero ==
    /\ pc = "setup"
    /\ start_idx' =
          IF resume /\ progress.last_county # NONE
            THEN [county |-> IF Contains(counties, progress.last_county)
                               THEN IndexOf(counties, progress.last_county)
                               ELSE 0,
                  market |-> IF Contains(markets, progress.last_market)
                               THEN IndexOf(markets, progress.last_market)
                               ELSE 0,
                  product |-> IF Contains(products, progress.last_product)
                                THEN IndexOf(products, progress.last_product)
                                ELSE 0]
            ELSE [county |-> 0, market |-> 0, product |-> 0]
    /\ county_idx' = start_idx'.county
    /\ pc' = "county_loop"
    /\ UNCHANGED <<market_idx, product_idx, inputVars, fileVars, attemptVars,
                   driverLive, exitVars, considered, scraped>>

\* lines 341-350: the resume test and the three list.index calls; a cursor
\* component that is not in its list raises ValueError, caught at sweep level
Setup ==
    /\ pc = "setup"
    /\ IF resume /\ progress.last_county # NONE
       THEN IF /\ Contains(counties, progress.last_county)
               /\ Contains(markets, progress.last_market)
               /\ Contains(products, progress.last_product)
            THEN /\ start_idx' =
                       [county |-> IndexOf(counties, progress.last_county),
                        market |-> IndexOf(markets, progress.last_market),
                        product |-> IndexOf(products, progress.last_product)]
                 /\ county_idx' = start_idx'.county
                 /\ pc' = "county_loop"
                 /\ UNCHANGED exitKind
            ELSE /\ pc' = "finally"
                 /\ exitKind' = "setup_error"
                 /\ UNCHANGED <<start_idx, county_idx>>
       ELSE /\ start_idx' = [county |-> 0, market |-> 0, product |-> 0]
            /\ county_idx' = 0
            /\ pc' = "county_loop"
            /\ UNCHANGED exitKind
    /\ UNCHANGED <<market_idx, product_idx, inputVars, fileVars, attemptVars,
                   driverLive, result, finalExport, quitCalled, considered,
                   scraped>>

\* for county_idx in range(start_idx['county'], len(counties))
CountyLoop ==
    /\ pc = "county_loop"
    /\ IF county_idx < Len(counties)
       THEN /\ market_idx' = start_idx.market
            /\ pc' = "market_loop"
            /\ UNCHANGED exitKind
       ELSE /\ pc' = "finally"
            /\ exitKind' = "normal"
            /\ UNCHANGED market_idx
    /\ UNCHANGED <<start_idx, county_idx, product_idx, inputVars, fileVars,
                   attemptVars, driverLive, result, finalExport, quitCalled,
                   considered, scraped>>

\* for market_idx in range(start_idx['market'], len(markets)); after the
\* loop the market start index is reset
MarketLoop ==
    /\ pc = "market_loop"
    /\ IF market_idx < Len(markets)
       THEN /\ product_idx' = start_idx.product
            /\ pc' = "product_loop"
            /\ UNCHANGED <<start_idx, county_idx>>
       ELSE /\ start_idx' = ResetMarket(start_idx)
            /\ county_idx' = county_idx + 1
            /\ pc' = "county_loop"
            /\ UNCHANGED product_idx
    /\ UNCHANGED <<market_idx, inputVars, fileVars, attemptVars, driverLive,
                   exitVars, considered, scraped>>

\* the product loop is exhausted: the product start index is reset
ProductLoopEnd ==
    /\ pc = "product_loop"
    /\ product_idx >= Len(products)
    /\ start_idx' = ResetProduct(start_idx)
    /\ market_idx' = market_idx + 1
    /\ pc' = "market_loop"
    /\ UNCHANGED <<county_idx, product_idx, inputVars, fileVars, attemptVars,
                   driverLive, exitVars, considered, scraped>>

\* lines 361-366: the cell is in progress['completed'], continue
SkipCompleted ==
    /\ pc = "product_loop"
    /\ product_idx < Len(products)
    /\ InCompleted(progress.completed, county, market, product)
    /\ considered' = Append(considered, cell)
    /\ product_idx' = product_idx + 1
    /\ UNCHANGED <<start_idx, county_idx, market_idx, inputVars, fileVars,
                   attemptVars, driverLive, exitVars, scraped, pc>>

\* line 368: retry_count = 0, the cell enters its retry loop
BeginCell ==
    /\ pc = "product_loop"
    /\ product_idx < Len(products)
    /\ ~InCompleted(progress.completed, county, market, product)
    /\ considered' = Append(considered, cell)
    /\ retry_count' = 0
    /\ pc' = "attempt"
    /\ UNCHANGED <<loopVars, inputVars, fileVars, total_entries, df, attempts,
                   refreshed, outcome, driverLive, exitVars, scraped>>

(* ------------------------------ one cell ------------------------------- *)
\* The locals total_entries and df keep their values in the program; where
\* they cannot be read again before they are assigned the model forgets
\* them (the handler, the refresh, the step to the next cell).

\* lines 369-379: the while test and the first set_filters; set_filters
\* returns a boolean, and False on a session that was quit; False raises
\* "Failed to set filters"
SetFilters ==
    /\ pc = "attempt"
    /\ RetryAllowed(retry_count)
    /\ attempts' = attempts + 1
    /\ refreshed' = FALSE
    /\ scraped' = IF attempts = 0 THEN Append(scraped, cell) ELSE scraped
    /\ \E ok \in BOOLEAN :
        /\ ok => driverLive
        /\ pc' = IF ok THEN "total" ELSE "handler"
    /\ UNCHANGED <<loopVars, inputVars, fileVars, retry_count, total_entries,
                   df, outcome, driverLive, exitVars, considered>>

\* the while test fails: every attempt was used up
RetriesExhausted ==
    /\ pc = "attempt"
    /\ ~RetryAllowed(retry_count)
    /\ outcome' = "failed"
    /\ pc' = "sleep"
    /\ UNCHANGED <<loopVars, inputVars, fileVars, retry_count, total_entries,
                   df, attempts, refreshed, driverLive, exitVars, considered,
                   scraped>>

\* lines 381-384: _get_total_entries gives None or a number; a falsy total
\* leaves the retry loop
GetTotalEntries ==
    /\ pc = "total"
    /\ \E t \in Totals :
        /\ total_entries' = t
        /\ IF Truthy(t)
           THEN pc' = "filters_optimal" /\ UNCHANGED outcome
           ELSE pc' = "sleep" /\ outcome' = "skipped"
    /\ UNCHANGED <<loopVars, inputVars, fileVars, retry_count, df, attempts,
                   refreshed, driverLive, exitVars, considered, scraped>>

\* lines 386-393: the second set_filters, with the optimised page size;
\* False raises "Failed to set optimized filters"
SetOptimizedFilters ==
    /\ pc = "filters_optimal"
    /\ \E ok \in BOOLEAN :
        IF ok THEN pc' = "scrape" /\ UNCHANGED total_entries
        ELSE pc' = "handler" /\ total_entries' = NoTotal
    /\ UNCHANGED <<loopVars, inputVars, fileVars, retry_count, df, attempts,
                   refreshed, outcome, driverLive, exitVars, considered,
                   scraped>>

\* lines 396-404 and 414-415: df = self.scrape_table() and the completeness
\* check; on success the rows are tagged, otherwise the attempt is counted
ScrapeAndVerify ==
    /\ pc = "scrape"
    /\ \E d \in DataFrames :
        /\ df' = d
        /\ IF VerifyDataCompleteness(d, total_entries[1])
           THEN /\ verified' = verified \cup {cell}
                /\ pc' = "export"
                /\ UNCHANGED retry_count
           ELSE /\ retry_count' = retry_count + 1
                /\ pc' = "refresh"
                /\ UNCHANGED verified
    /\ UNCHANGED <<loopVars, inputVars, progressFile, progress, exports,
                   all_data, total_entries, attempts, refreshed, outcome,
                   driverLive, exitVars, considered, scraped>>

SaveIntermediateDataMutNoExport ==
    /\ pc = "export"
    /\ exports' = exports
    /\ all_data' = Append(all_data, cell)
    /\ pc' = "progress"
    /\ UNCHANGED <<loopVars, inputVars, progressFile, progress, verified,
                   attemptVars, driverLive, exitVars, considered, scraped>>

\* lines 406-408: the per-cell export, then all_data.append(df)
SaveIntermediateData ==
    /\ pc = "export"
    /\ exports' = exports \cup {cell}
    /\ all_data' = Append(all_data, cell)
    /\ pc' = "progress"
    /\ UNCHANGED <<loopVars, inputVars, progressFile, progress, verified,
                   attemptVars, driverLive, exitVars, considered, scraped>>

\* SaveProgress with the cursor left where it was
SaveProgressMutKeepCursor ==
    /\ pc = "progress"
    /\ progress' = [progress EXCEPT
                       !.completed = Append(progress.completed, cell)]
    /\ progressFile' = [state |-> "corrupt", data |-> DefaultProgress]
    /\ pc' = "dump"
    /\ UNCHANGED <<loopVars, inputVars, exports, verified, all_data,
                   attemptVars, driverLive, exitVars, considered, scraped>>

\* _save_progress up to open(progress_file, 'w'): the cursor is moved, the
\* cell is appended to completed, the file is truncated
SaveProgress ==
    /\ pc = "progress"
    /\ progress' = [last_county |-> county, last_market |-> market,
                    last_product |-> product,
                    completed |-> Append(progress.completed, cell)]
    /\ progressFile' = [state |-> "corrupt", data |-> DefaultProgress]
    /\ pc' = "dump"
    /\ UNCHANGED <<loopVars, inputVars, exports, verified, all_data,
                   attemptVars, driverLive, exitVars, considered, scraped>>

\* json.dump(self.progress, f), then break
DumpProgress ==
    /\ pc = "dump"
    /\ progressFile' = [state |-> "ok", data |-> progress]
    /\ outcome' = "saved"
    /\ pc' = "sleep"
    /\ UNCHANGED <<loopVars, inputVars, progress, exports, verified, all_data,
                   retry_count, total_entries, df, attempts, refreshed,
                   driverLive, exitVars, considered, scraped>>

\* line 416: _refresh_session inside the try; what it raises is caught by
\* the handler of the same try
RefreshAfterIncomplete ==
    /\ pc = "refresh"
    /\ \E raises \in BOOLEAN :
        /\ RefreshSession(raises)
        /\ refreshed' = ~raises
        /\ pc' = IF raises THEN "handler" ELSE "attempt"
    /\ total_entries' = NoTotal
    /\ df' = NoDf
    /\ UNCHANGED <<loopVars, inputVars, fileVars, retry_count, attempts,
                   outcome, exitVars, considered, scraped>>

\* lines 418-425 with attempts left: count the attempt, refresh the
\* session; what _refresh_session raises here leaves the three loops
HandlerRetry ==
    /\ pc = "handler"
    /\ retry_count + 1 < MAX_RETRIES
    /\ retry_count' = retry_count + 1
    /\ \E raises \in BOOLEAN :
        /\ RefreshSession(raises)
        /\ refreshed' = ~raises
        /\ IF raises
           THEN pc' = "finally" /\ exitKind' = "cell_exception"
           ELSE pc' = "attempt" /\ UNCHANGED exitKind
    /\ UNCHANGED <<loopVars, inputVars, fileVars, total_entries, df, attempts,
                   outcome, result, finalExport, quitCalled, considered,
                   scraped>>

\* lines 418-423 on the last attempt: count it, no refresh
HandlerGiveUp ==
    /\ pc = "handler"
    /\ ~(retry_count + 1 < MAX_RETRIES)
    /\ retry_count' = retry_count + 1
    /\ pc' = "attempt"
    /\ UNCHANGED <<loopVars, inputVars, fileVars, total_entries, df, attempts,
                   refreshed, outcome, driverLive, exitVars, considered,
                   scraped>>

\* line 427 and the step of the product loop
NextProduct ==
    /\ pc = "sleep"
    /\ product_idx' = product_idx + 1
    /\ pc' = "product_loop"
    /\ retry_count' = 0
    /\ total_entries' = NoTotal
    /\ df' = NoDf
    /\ attempts' = 0
    /\ refreshed' = FALSE
    /\ outcome' = "none"
    /\ UNCHANGED <<start_idx, county_idx, market_idx, inputVars, fileVars,
                   driverLive, exitVars, considered, scraped>>

(* ------------------------------ sweep end ------------------------------ *)
DropDuplicatesMutKeepAll(s) == s

RECURSIVE DropDuplicates(_)
\* drop_duplicates: the first occurrence of every entry is kept
DropDuplicates(s) ==
    IF s = <<>> THEN <<>>
    ELSE LET front == DropDuplicates(SubSeq(s, 1, Len(s) - 1))
             last == s[Len(s)]
         IN IF last \in Range(front) THEN front ELSE Append(front, last)

\* _save_final_results: concatenate, remove duplicates
SaveFinalResults(tables) == DropDuplicates(tables)

FinallyMutNoQuitOnError ==
    /\ pc = "finally"
    /\ quitCalled' = (exitKind = "normal")
    /\ driverLive' = IF exitKind = "normal" THEN FALSE ELSE driverLive
    /\ pc' = "done"
    /\ IF exitKind = "normal" /\ all_data # <<>>
       THEN /\ result' = [none |-> FALSE,
                          tables |-> SaveFinalResults(all_data)]
            /\ finalExport' = SaveFinalResults(all_data)
       ELSE /\ result' = NoResult
            /\ UNCHANGED finalExport
    /\ UNCHANGED <<loopVars, inputVars, fileVars, attemptVars, exitKind,
                   considered, scraped>>

\* lines 435-446: the sweep-level handler returns None; the finally clause
\* quits the driver; after a normal end the collected tables are
\* consolidated.  An error of quit leaves run_all as an exception.
Finally ==
    /\ pc = "finally"
    /\ quitCalled' = TRUE
    /\ \E quitOk \in BOOLEAN :
        IF quitOk
        THEN /\ driverLive' = FALSE
             /\ pc' = "done"
             /\ IF exitKind = "normal" /\ all_data # <<>>
                THEN /\ result' = [none |-> FALSE,
                                   tables |-> SaveFinalResults(all_data)]
                     /\ finalExport' = SaveFinalResults(all_data)
                ELSE /\ result' = NoResult
                     /\ UNCHANGED finalExport
        ELSE /\ pc' = "raised"
             /\ UNCHANGED <<driverLive, result, finalExport>>
    /\ UNCHANGED <<loopVars, inputVars, fileVars, attemptVars, exitKind,
                   considered, scraped>>

Next ==
    \/ Setup
    \/ CountyLoop
    \/ MarketLoop
    \/ ProductLoopEnd
    \/ SkipCompleted
    \/ BeginCell
    \/ SetFilters
    \/ RetriesExhausted
    \/ GetTotalEntries
    \/ SetOptimizedFilters
    \/ ScrapeAndVerify
    \/ SaveIntermediateData
    \/ SaveProgress
    \/ DumpProgress
    \/ RefreshAfterIncomplete
    \/ HandlerRetry
    \/ HandlerGiveUp
    \/ NextProduct
    \/ Finally

Spec == Init /\ [][Next]_vars

(* ======================= properties of the sweep ======================= *)
IsPrefix(s, t) == Len(s) <= Len(t) /\ SubSeq(t, 1, Len(s)) = s

Exited == pc \in {"done", "raised"}
LoopsLeft == pc \in {"finally", "done", "raised"}

LoadedCursor == <<loaded.last_county, loaded.last_market, loaded.last_product>>
CursorValid ==
    /\ Contains(counties, loaded.last_county)
    /\ Contains(markets, loaded.last_market)
    /\ Contains(products, loaded.last_product)
Resuming == resume /\ loaded.last_county # NONE
\* position of the first cell of the sweep in the nested order
StartPos ==
    IF Resuming THEN CHOOSE n \in 1..NumCells : AllCells[n] = LoadedCursor
    ELSE 1
\* the cells lexicographically at or after the start, in nested order
ExpectedCells == SubSeq(AllCells, StartPos, NumCells)
NotLoadedCompleted(c) == c \notin Range(loaded.completed)
ExpectedScraped == SelectSeq(ExpectedCells, NotLoadedCompleted)

ExampleLists ==
    /\ counties = <<"A", "B">>
    /\ markets = <<"X", "Y">>
    /\ products = <<"P", "Q">>
ExampleScraped ==
    << <<"A", "Y", "Q">>, <<"B", "X", "P">>, <<"B", "X", "Q">>,
       <<"B", "Y", "P">>, <<"B", "Y", "Q">> >>

\* C1: odometer traversal.  In a resume=true sweep whose cursor components
\* are in the lists, the cells the product loop reaches are, in order, the
\* cells lexicographically at or after the cursor (a prefix of them while
\* the sweep runs, all of them when the loops end), the cells passed to
\* set_filters are those of them not recorded as completed, and with
\* counties=[A,B], markets=[X,Y], products=[P,Q] and the completed cursor
\* (A,Y,P) the cells scraped are (A,Y,Q), (B,X,P), (B,X,Q), (B,Y,P), (B,Y,Q).
C1_OdometerTraversal ==
    (Resuming /\ CursorValid) =>
        /\ IsPrefix(considered, ExpectedCells)
        /\ IsPrefix(scraped, ExpectedScraped)
        /\ exitKind = "normal" =>
               /\ considered = ExpectedCells
               /\ scraped = ExpectedScraped
        /\ (/\ ExampleLists
            /\ loaded.completed = << <<"A", "Y", "P">> >>
            /\ exitKind = "normal") => scraped = ExampleScraped

C1_Witness ==
    /\ pc = "done"
    /\ exitKind = "normal"
    /\ resume
    /\ loaded.completed = << <<"A", "Y", "P">> >>
    /\ considered = SubSeq(AllCells, 3, NumCells)
    /\ scraped = ExampleScraped

\* C2: resume idempotence.  In a resume=true sweep started from a progress
\* state with a non-empty completed sequence, no cell passed to set_filters
\* is in the loaded completed sequence, and the cell being filtered is not
\* in completed at that time.
C2_ResumeIdempotence ==
    (resume /\ loaded.completed # <<>>) =>
        /\ \A i \in 1..Len(scraped) : scraped[i] \notin Range(loaded.completed)
        /\ pc \in {"total", "filters_optimal", "scrape"} =>
               cell \notin Range(progress.completed)

C2_Witness ==
    /\ resume
    /\ loaded.completed # <<>>
    /\ pc = "done"
    /\ \E i \in 1..Len(considered) : considered[i] \in Range(loaded.completed)
    /\ scraped # <<>>

\* C3: with resume=false a sweep that runs through its loops has passed
\* every cell of counties x markets x products to set_filters, whatever the
\* progress file held.
C3_NoResumeScrapesAll ==
    (~resume /\ exitKind = "normal") => scraped = AllCells

\* the gate of spec 4.5, stated on the frame and the total of the attempt
GatePassed ==
    /\ ~df.none
    /\ df.rows >= 1 /\ df.cols >= 1
    /\ total_entries # NoTotal
    /\ df.rows >= total_entries[1]
AfterExtraction ==
    pc \in {"export", "progress", "dump", "refresh"} \/ outcome = "saved"
CellUnsaved ==
    /\ cell \notin Range(all_data)
    /\ cell \notin exports
    /\ cell \notin Range(progress.completed)

\* C4: completeness gate.  After an extraction the cell is on the way to
\* Saved (export, progress record) exactly when the table is non-empty and
\* its row count is >= the total reported in this attempt; otherwise the
\* attempt was counted as a failure, a refresh is due and the cell has not
\* been saved.
C4_CompletenessGate ==
    /\ (pc \in {"export", "progress", "dump"} \/ outcome = "saved")
           => GatePassed
    /\ pc = "refresh" =>
           /\ ~GatePassed
           /\ retry_count >= 1
           /\ CellUnsaved
    /\ outcome = "saved" =>
           /\ cell \in exports
           /\ cell \in Range(all_data)
           /\ cell \in Range(progress.completed)

C4_Witness ==
    /\ pc = "refresh"
    /\ ~df.none /\ df.cols >= 1 /\ df.rows >= 1
    /\ df.rows < total_entries[1]

\* entries of a completed sequence that this run appended
AddedByRun(completed) ==
    {completed[i] : i \in (Len(loaded.completed) + 1)..Len(completed)}

\* C5: progress invariant.  In every state, every entry this run has
\* appended to completed, in memory or in the progress file, is a cell that
\* passed the completeness check and whose per-cell export is on disk; the
\* loaded entries are kept.
C5_ProgressInvariant ==
    /\ IsPrefix(loaded.completed, progress.completed)
    /\ \A c \in AddedByRun(progress.completed) :
           c \in verified /\ c \in exports
    /\ progressFile.state = "ok" =>
           /\ IsPrefix(loaded.completed, progressFile.data.completed)
           /\ \A c \in AddedByRun(progressFile.data.completed) :
                  c \in verified /\ c \in exports

C5_Witness ==
    /\ pc = "dump"
    /\ progressFile.state = "corrupt"
    /\ Len(progress.completed) > Len(loaded.completed) + 1

\* C6: one cell's failure never aborts the sweep.  Unless the iteration
\* setup failed, when the loops are left every cell from the start on has
\* been reached.
C6_FailureNeverAborts ==
    (LoopsLeft /\ exitKind # "setup_error") =>
        considered = ExpectedCells

\* C7: whenever run_all has returned and at least one cell was Saved, the
\* Saved cells' tables were consolidated, persisted and returned; null is
\* returned only if nothing was collected.
C7_CollectedIsReturned ==
    (pc = "done" /\ all_data # <<>>) =>
        /\ ~result.none
        /\ Range(result.tables) = Range(all_data)
        /\ finalExport = result.tables

\* C8: on every exit path the finally clause has called driver.quit, and
\* when run_all has returned the current session is torn down.
C8_SessionTornDown ==
    /\ Exited => quitCalled
    /\ pc = "done" => ~driverLive

C8_Witness ==
    /\ pc = "done"
    /\ exitKind = "cell_exception"
    /\ quitCalled

ExtractedEmpty == AfterExtraction /\ (df.none \/ DfEmpty(df))

C10_RetryBound ==
    /\ attempts <= 3
    /\ MAX_RETRIES = 3
    /\ (pc = "attempt" /\ attempts >= 1 /\ retry_count < 3) =>
           refreshed /\ driverLive
    /\ pc \in {"total", "filters_optimal", "scrape"} => retry_count < 3

C10_Witness ==
    /\ pc = "sleep"
    /\ outcome = "failed"
    /\ attempts = 3

Cursor(record) ==
    <<record.last_county, record.last_market, record.last_product>>

\* C31 as stated: after a resumed sweep that ran through its loops every
\* cell of the product is in completed or was passed to set_filters in this
\* run.
C31_ResumeCoversAllCells ==
    (Resuming /\ pc = "done" /\ exitKind = "normal") =>
        \A n \in 1..NumCells :
            \/ AllCells[n] \in Range(progress.completed)
            \/ Contains(scraped, AllCells[n])

\* C31 amended: after a resumed sweep that ran through its loops every
\* cell at or after the cursor in nested order is in completed or was
\* passed to set_filters in this run, and no cell before the cursor was
\* reached by the loops, whether or not it is in completed.
C31_ResumeCoversFromCursor ==
    (Resuming /\ pc = "done" /\ exitKind = "normal") =>
        \A n \in 1..NumCells :
            IF n >= StartPos
              THEN \/ AllCells[n] \in Range(progress.completed)
                   \/ Contains(scraped, AllCells[n])
              ELSE /\ ~Contains(considered, AllCells[n])
                   /\ ~Contains(scraped, AllCells[n])

\* a resumed sweep ended normally and left a cell before the cursor that is
\* not in completed
C31_Witness ==
    /\ Resuming
    /\ pc = "done"
    /\ exitKind = "normal"
    /\ StartPos > 1
    /\ AllCells[1] \notin Range(progress.completed)
    /\ Len(scraped) >= 2

C35_CrashSafeProgress ==
    \A i \in 1..Len(progress.completed) :
        \/ pc = "dump" /\ i = Len(progress.completed)
        \/ progress.completed[i] \in
               Range(LoadProgress(progressFile).completed)

\* C38: a resumed sweep whose recorded cursor has a component outside its
\* list reaches no cell and calls set_filters for none, leaves the progress
\* record and file as loaded, and once it has returned the session is quit
\* and the result is None.
C38_SetupErrorOnResume ==
    (Resuming /\ ~CursorValid) =>
        /\ pc \in {"setup", "finally", "done", "raised"}
        /\ considered = <<>>
        /\ scraped = <<>>
        /\ all_data = <<>>
        /\ progress = loaded
        /\ LoadProgress(progressFile) = loaded
        /\ pc # "setup" => exitKind = "setup_error"
        /\ pc = "done" => (result = NoResult /\ quitCalled /\ ~driverLive)

\* run_all returned after a setup error on a recorded product that is not
\* in the list, the county and the market being in theirs
C38_Witness ==
    /\ Resuming
    /\ LoadedCursor = ForeignProductCell
    /\ pc = "done"
    /\ exitKind = "setup_error"

(* ------------------------ file writes that fail ------------------------ *)
\* The three file writes of a verified cell are inside the cell's try
\* (lines 406-411): what one of them raises reaches the handler at 418.
\* At most MaxFaults writes fail in a sweep.
MaxFaults == 2

faultOthers == <<resume, loaded, browserVars, pageVars, finalVars, optVars,
                 sessionVars, startVars, variantVars, cellVars, mainVars,
                 retryVars>>

\* df.to_csv raises in _save_intermediate_data: the export may be left
\* partly written; all_data.append is not reached
SaveIntermediateDataFails ==
    /\ pc = "export"
    /\ faults < MaxFaults
    /\ faults' = faults + 1
    /\ exports' \in {exports, exports \cup {cell}}
    /\ pc' = "handler"
    /\ UNCHANGED <<loopVars, faultOthers, progressFile, progress, verified,
                   all_data, attemptVars, driverLive, exitVars, considered,
                   scraped>>

\* open(progress_file, 'w') raises in _save_progress: the record in memory
\* is already updated, the file is as it was
SaveProgressOpenFails ==
    /\ pc = "progress"
    /\ faults < MaxFaults
    /\ faults' = faults + 1
    /\ progress' = [last_county |-> county, last_market |-> market,
                    last_product |-> product,
                    completed |-> Append(progress.completed, cell)]
    /\ pc' = "handler"
    /\ UNCHANGED <<loopVars, faultOthers, progressFile, exports, verified,
                   all_data, attemptVars, driverLive, exitVars, considered,
                   scraped>>

\* json.dump raises after the file was truncated
DumpProgressFails ==
    /\ pc = "dump"
    /\ faults < MaxFaults
    /\ faults' = faults + 1
    /\ pc' = "handler"
    /\ UNCHANGED <<loopVars, faultOthers, fileVars, attemptVars, driverLive,
                   exitVars, considered, scraped>>

FaultyNext ==
    \/ Next
    \/ SaveIntermediateDataFails
    \/ SaveProgressOpenFails
    \/ DumpProgressFails

\* progress files of resumed sweeps: the cursor on the last cell of the
\* first market of the last county, and on a cell of other lists
LateCursorFiles ==
    {[state |-> "ok", data |-> RecordOf(<<CellAt(NumCells - 2)>>)],
     [state |-> "ok", data |-> RecordOf(<<ForeignCell>>)]}

FaultyCall ==
    /\ Init
    /\ resume
    /\ progressFile \in LateCursorFiles

FaultySpec == FaultyCall /\ [][FaultyNext]_vars

\* C34 as stated: completed holds each triple at most once and the
\* accumulated tables hold the table of each cell at most once, whatever
\* fails during the sweep.
C34_NoDuplicateRecords ==
    /\ \A i, j \in 1..Len(progress.completed) :
           progress.completed[i] = progress.completed[j] => i = j
    /\ \A i, j \in 1..Len(all_data) : all_data[i] = all_data[j] => i = j

\* C32 as stated: a cell that ended Failed or Skipped is not in completed,
\* is not the cursor, has no table among the accumulated tables and no
\* per-cell export, and the progress file holds what memory holds: nothing
\* was written for it.
C32_UnsuccessfulCellFrame ==
    outcome \in {"failed", "skipped"} =>
        /\ pc = "sleep"
        /\ CellUnsaved
        /\ Cursor(progress) # cell
        /\ LoadProgress(progressFile) = progress

(* -------------------------------- main --------------------------------- *)
\* main constructs one scraper and calls run_all on it for the test
\* configuration and, when that returned a table, for the full one, both
\* with resume=True.  The lists of the model stand for the lists of either
\* call.  self.progress, the files and self.driver are the scraper's and are
\* carried over; all_data, start_idx and the loop variables are locals of
\* the call.
mainOthers == <<browserVars, pageVars, finalVars, optVars, sessionVars,
                startVars, variantVars, cellVars, faultVars, retryVars>>

\* lines 256-269: test_df is not None, the second run_all is entered
SecondRunAll ==
    /\ pc = "done"
    /\ run_no = 1
    /\ ~result.none
    /\ run_no' = 2
    /\ pc' = "setup"
    /\ start_idx' = [county |-> 0, market |-> 0, product |-> 0]
    /\ county_idx' = 0 /\ market_idx' = 0 /\ product_idx' = 0
    /\ retry_count' = 0
    /\ total_entries' = NoTotal
    /\ df' = NoDf
    /\ attempts' = 0
    /\ refreshed' = FALSE
    /\ outcome' = "none"
    /\ all_data' = <<>>
    /\ exitKind' = "none"
    /\ result' = NoResult
    /\ quitCalled' = FALSE
    /\ considered' = <<>>
    /\ scraped' = <<>>
    /\ UNCHANGED <<resume, loaded, progressFile, progress, exports, verified,
                   finalExport, driverLive, mainOthers>>

\* lines 276-285: after the last run_all returned or raised, the finally
\* clause of main quits the driver once more; an error is logged
MainFinally ==
    /\ pc \in {"done", "raised"}
    /\ run_no = 2 \/ pc = "raised" \/ result.none
    /\ pc' = "exit"
    /\ \E quitOk \in BOOLEAN :
          driverLive' = IF quitOk THEN FALSE ELSE driverLive
    /\ UNCHANGED <<loopVars, resume, loaded, fileVars, attemptVars, exitVars,
                   considered, scraped, run_no, mainOthers>>

MainNext ==
    \/ Next
    \/ SecondRunAll
    \/ MainFinally

MainCall ==
    /\ Init
    /\ resume
    /\ progressFile \in LateCursorFiles

MainSpec == MainCall /\ [][MainNext]_vars

\* a browser call of the cell is due: set_filters, the reading of the
\* total, the second set_filters or the extraction
UiCallDue ==
    \/ pc \in {"total", "filters_optimal", "scrape"}
    \/ pc = "attempt" /\ RetryAllowed(retry_count)

\* C37 as stated, for the second sweep of main: when the first set_filters
\* call of the second run_all is due, the session is live.
C37_SecondSweepOnLiveSession ==
    (run_no = 2 /\ pc = "attempt" /\ scraped = <<>>) => driverLive

\* C37 as stated, in general: whenever a browser call of a cell is due the
\* session is live: it was not quit, or it was created anew after the quit.
C37_NoUseAfterTeardown == UiCallDue => driverLive

(* ========================= the table extractor ========================= *)
MaxCols == 2
MaxBodyRows == 2

\* cell texts as character sequences: empty, whitespace only, padded text
CellTexts == {<<>>, <<" ">>, <<" ", "a">>}

RECURSIVE LStrip(_)
LStrip(t) == IF t # <<>> /\ Head(t) = " " THEN LStrip(Tail(t)) ELSE t

RECURSIVE RStrip(_)
RStrip(t) ==
    IF t # <<>> /\ t[Len(t)] = " " THEN RStrip(SubSeq(t, 1, Len(t) - 1))
    ELSE t

\* str.strip()
Strip(t) == RStrip(LStrip(t))

Null == [null |-> TRUE, text |-> <<>>]

\* col.text.strip() or None
CellValue(t) ==
    IF Strip(t) = <<>> THEN Null ELSE [null |-> FALSE, text |-> Strip(t)]

\* cols_data += [None] * n : nothing is added when n <= 0
Pad(cols_data, n) ==
    IF n > 0 THEN cols_data \o [i \in 1..n |-> Null] ELSE cols_data

\* cols_data[:n]
Truncate(cols_data, n) ==
    IF Len(cols_data) > n THEN SubSeq(cols_data, 1, n) ELSE cols_data

AdjustRowMutNoPad(cols_data, hdrs) == Truncate(cols_data, Len(hdrs))

\* the adjustment of a row whose length differs from the header's
AdjustRow(cols_data, hdrs) ==
    IF Len(cols_data) # Len(hdrs)
    THEN Truncate(Pad(cols_data, Len(hdrs) - Len(cols_data)), Len(hdrs))
    ELSE cols_data

HeaderLists == {[i \in 1..n |-> <<"h">>] : n \in 0..MaxCols}
RowTexts == UNION {[1..n -> CellTexts] : n \in 0..MaxCols}
RowLists == UNION {[1..n -> RowTexts] : n \in 0..MaxBodyRows}

\* the columns dropna(axis=1, how='all') keeps
KeptColumns(d, hdrs) ==
    {j \in 1..Len(hdrs) : \E r \in 1..Len(d) : ~d[r][j].null}

\* scrape_table has read the headers and found the body rows
TableInit ==
    /\ headers \in HeaderLists
    /\ rows \in RowLists
    /\ data = <<>>
    /\ table_pc = "rows"
    /\ table_df = NoDf

\* one pass of the row loop
ExtractRow ==
    /\ table_pc = "rows"
    /\ Len(data) < Len(rows)
    /\ LET cols == rows[Len(data) + 1]
           cols_data == [i \in 1..Len(cols) |-> CellValue(cols[i])]
       IN data' = Append(data, AdjustRow(cols_data, headers))
    /\ UNCHANGED <<headers, rows, table_pc, table_df, tableOthers>>

\* reading a row's cells raises (the row went stale): the except clause
\* returns None
ExtractRowRaises ==
    /\ table_pc = "rows"
    /\ Len(data) < Len(rows)
    /\ table_pc' = "failed"
    /\ table_df' = NoDf
    /\ UNCHANGED <<headers, rows, data, tableOthers>>

RowLoopEnd ==
    /\ table_pc = "rows"
    /\ Len(data) = Len(rows)
    /\ table_pc' = "frame"
    /\ UNCHANGED <<headers, rows, data, table_df, tableOthers>>

\* BuildFrame without the test for an empty data list
BuildFrameMutNoEmptyTest ==
    /\ table_pc = "frame"
    /\ table_df' = [none |-> FALSE, rows |-> Len(data),
                    cols |-> Cardinality(KeptColumns(data, headers))]
    /\ table_pc' = "returned"
    /\ UNCHANGED <<headers, rows, data, tableOthers>>

\* None without rows, else the frame without its all-null columns
BuildFrame ==
    /\ table_pc = "frame"
    /\ table_df' =
          IF data = <<>> THEN NoDf
          ELSE [none |-> FALSE, rows |-> Len(data),
                cols |-> Cardinality(KeptColumns(data, headers))]
    /\ table_pc' = "returned"
    /\ UNCHANGED <<headers, rows, data, tableOthers>>

\* the sweep is not running: a fresh scraper without a progress file
SweepIdle ==
    /\ SweepInit
    /\ ~resume
    /\ progressFile.state = "missing"

TableNext ==
    \/ ExtractRow
    \/ ExtractRowRaises
    \/ RowLoopEnd
    \/ BuildFrame

\* a call of scrape_table with everything else at rest
TableCall ==
    /\ SweepIdle
    /\ SelectIdle /\ DatesIdle /\ CalendarIdle /\ FilterIdle
    /\ UnitsIdle
    /\ TableInit

TableSpec == TableCall /\ [][TableNext]_vars

MaxOptions == 3

\* the default of max_retries
SELECT_MAX_RETRIES == 3
\* passes of the lookup loop that retries a stale element
STALE_RETRIES == 3

\* the values asked for and the option texts a field can show; the empty
\* text is the placeholder option
SelectValues == {<<"A">>, <<"a">>}
OptionTexts == {<<>>, <<"A">>, <<"a">>}
OptionLists == UNION {[1..n -> OptionTexts] : n \in 0..MaxOptions}

\* str.lower()
Lower(t) ==
    [i \in 1..Len(t) |->
        IF t[i] = "A" THEN "a" ELSE t[i]]

\* what the three strategies look for among the options
ExactMatch(text, value) == text = value
JsMatch(text, value) == Strip(text) = value
CaseInsensitiveMatch(text, value) ==
    Lower(Strip(text)) = Lower(Strip(value))

\* what the strategies that read the selection back compare
ExactVerified(text, value) == Strip(text) = value
CaseInsensitiveVerified(text, value) ==
    Lower(Strip(text)) = Lower(Strip(value))

SelectInit ==
    /\ sel_value \in SelectValues
    /\ sel_max_retries \in 0..SELECT_MAX_RETRIES
    /\ sel_attempt = 0
    /\ sel_stale = 0
    /\ sel_options = <<>>
    /\ sel_selected = <<>>
    /\ sel_readback = FALSE
    /\ sel_tried = <<>>
    /\ sel_pc = "loop"
    /\ sel_result = FALSE

SelectReturn(v) ==
    /\ sel_pc' = "returned"
    /\ sel_result' = v

AttemptAllowedMutOneMore(attempt, max_retries) == attempt <= max_retries

\* for attempt in range(max_retries)
AttemptAllowed(attempt, max_retries) == attempt < max_retries

\* the attempt loop takes its next pass
BeginAttempt ==
    /\ sel_pc = "loop"
    /\ AttemptAllowed(sel_attempt, sel_max_retries)
    /\ sel_attempt' = sel_attempt + 1
    /\ sel_stale' = 0
    /\ sel_tried' = <<>>
    /\ sel_pc' = "find"
    /\ UNCHANGED <<sel_value, sel_max_retries, sel_options, sel_selected,
                   sel_readback, sel_result, selectOthers>>

\* the attempt loop is exhausted
AttemptsExhausted ==
    /\ sel_pc = "loop"
    /\ ~AttemptAllowed(sel_attempt, sel_max_retries)
    /\ SelectReturn(FALSE)
    /\ UNCHANGED <<sel_value, sel_max_retries, sel_attempt, sel_stale,
                   sel_options, sel_selected, sel_readback, sel_tried,
                   selectOthers>>

\* one pass of the lookup loop: the element is found, it is stale, the wait
\* times out (a WebDriverException) or something else is raised; after
\* STALE_RETRIES stale passes NoSuchElementException is raised
FindSelect ==
    /\ sel_pc = "find"
    /\ IF sel_stale = STALE_RETRIES
       THEN sel_pc' = "webdriver_error" /\ UNCHANGED sel_stale
       ELSE \E found \in {"found", "stale", "timeout", "unexpected"} :
              /\ sel_stale' = IF found = "stale" THEN sel_stale + 1
                              ELSE sel_stale
              /\ sel_pc' = CASE found = "found" -> "options"
                              [] found = "stale" -> "find"
                              [] found = "timeout" -> "webdriver_error"
                              [] OTHER -> "unexpected"
    /\ UNCHANGED <<sel_value, sel_max_retries, sel_attempt, sel_options,
                   sel_selected, sel_readback, sel_tried, sel_result,
                   selectOthers>>

InsufficientOptionsMutNone(found) == Len(found) < 1

\* len(options) <= 1
InsufficientOptions(found) == Len(found) <= 1

\* scroll into view and read the options: with one option or none the
\* attempt is over
ReadOptions ==
    /\ sel_pc = "options"
    /\ \E raises \in BOOLEAN, found \in OptionLists :
          IF raises
          THEN sel_pc' = "webdriver_error" /\ UNCHANGED sel_options
          ELSE /\ sel_options' = found
               /\ sel_pc' = IF InsufficientOptions(found) THEN "loop"
                            ELSE "exact"
    /\ UNCHANGED <<sel_value, sel_max_retries, sel_attempt, sel_stale,
                   sel_selected, sel_readback, sel_tried, sel_result,
                   selectOthers>>

Tried(strategy, ok) == Append(sel_tried, [strategy |-> strategy, ok |-> ok])

\* _select_by_visible_text: select the option with the value as its text,
\* then read the first selected option back and compare; any exception
\* makes it False
SelectByVisibleText ==
    /\ sel_pc = "exact"
    /\ \E raises \in BOOLEAN, actual \in 1..Len(sel_options) :
          LET matched == \E i \in 1..Len(sel_options) :
                            ExactMatch(sel_options[i], sel_value)
              ok == /\ matched
                    /\ ~raises
                    /\ ExactVerified(sel_options[actual], sel_value)
          IN /\ IF matched
                THEN /\ sel_selected' = sel_options[actual]
                     /\ sel_readback' = ~raises
                ELSE UNCHANGED <<sel_selected, sel_readback>>
             /\ sel_tried' = Tried("exact", ok)
             /\ IF ok THEN SelectReturn(TRUE)
                ELSE sel_pc' = "js" /\ UNCHANGED sel_result
    /\ UNCHANGED <<sel_value, sel_max_retries, sel_attempt, sel_stale,
                   sel_options, selectOthers>>

\* _select_by_js: the script sets selectedIndex to the first option whose
\* trimmed text is the value, dispatches a change event and returns true;
\* the result of the script is all that is looked at, the selection that
\* the page's change handlers leave is not read
SelectByJs ==
    /\ sel_pc = "js"
    /\ \E raises \in BOOLEAN, actual \in 1..Len(sel_options) :
          LET matched == \E i \in 1..Len(sel_options) :
                            JsMatch(sel_options[i], sel_value)
              ok == matched /\ ~raises
          IN /\ IF matched
                THEN /\ sel_selected' = sel_options[actual]
                     /\ sel_readback' = FALSE
                ELSE UNCHANGED <<sel_selected, sel_readback>>
             /\ sel_tried' = Tried("js", ok)
             /\ IF ok THEN SelectReturn(TRUE)
                ELSE sel_pc' = "case" /\ UNCHANGED sel_result
    /\ UNCHANGED <<sel_value, sel_max_retries, sel_attempt, sel_stale,
                   sel_options, selectOthers>>

\* _select_by_case_insensitive: each option whose lowered text is the
\* lowered value is selected and the selection read back, until one read
\* passes; the last selection made is the one that stays
SelectByCaseInsensitive ==
    /\ sel_pc = "case"
    /\ \E raises \in BOOLEAN, actual \in 1..Len(sel_options) :
          LET matched == \E i \in 1..Len(sel_options) :
                            CaseInsensitiveMatch(sel_options[i], sel_value)
              ok == /\ matched
                    /\ ~raises
                    /\ CaseInsensitiveVerified(sel_options[actual],
                                                sel_value)
          IN /\ IF matched
                THEN /\ sel_selected' = sel_options[actual]
                     /\ sel_readback' = ~raises
                ELSE UNCHANGED <<sel_selected, sel_readback>>
             /\ sel_tried' = Tried("case", ok)
             /\ IF ok THEN SelectReturn(TRUE)
                ELSE sel_pc' = "loop" /\ UNCHANGED sel_result
    /\ UNCHANGED <<sel_value, sel_max_retries, sel_attempt, sel_stale,
                   sel_options, selectOthers>>

\* except (NoSuchElementException, WebDriverException): the next attempt
\* if one is left, else False
HandleWebDriverError ==
    /\ sel_pc = "webdriver_error"
    /\ IF sel_attempt - 1 < sel_max_retries - 1
       THEN sel_pc' = "loop" /\ UNCHANGED sel_result
       ELSE SelectReturn(FALSE)
    /\ UNCHANGED <<sel_value, sel_max_retries, sel_attempt, sel_stale,
                   sel_options, sel_selected, sel_readback, sel_tried,
                   selectOthers>>

\* except Exception: False at once
HandleUnexpected ==
    /\ sel_pc = "unexpected"
    /\ SelectReturn(FALSE)
    /\ UNCHANGED <<sel_value, sel_max_retries, sel_attempt, sel_stale,
                   sel_options, sel_selected, sel_readback, sel_tried,
                   selectOthers>>

SelectNext ==
    \/ BeginAttempt
    \/ AttemptsExhausted
    \/ FindSelect
    \/ ReadOptions
    \/ SelectByVisibleText
    \/ SelectByJs
    \/ SelectByCaseInsensitive
    \/ HandleWebDriverError
    \/ HandleUnexpected

\* a call of _set_select_value with everything else at rest
SelectCall ==
    /\ SweepIdle
    /\ TableIdle /\ DatesIdle /\ CalendarIdle /\ FilterIdle
    /\ UnitsIdle
    /\ SelectInit

SelectSpec == SelectCall /\ [][SelectNext]_vars

StrategyOrder == <<"exact", "js", "case">>

\* the strategy that made _set_select_value return True
SucceededBy ==
    IF sel_pc = "returned" /\ sel_result
    THEN sel_tried[Len(sel_tried)].strategy ELSE "none"

\* C12: whenever _set_select_value has returned True, the text of the
\* selected option was read back after the selection and equals the value
\* asked for, exactly, or without regard to case when the case-insensitive
\* strategy succeeded.
C12_SelectPostcondition ==
    (sel_pc = "returned" /\ sel_result) =>
        /\ sel_readback
        /\ IF SucceededBy = "case"
           THEN Lower(sel_selected) = Lower(sel_value)
           ELSE sel_selected = sel_value

\* C13: in every attempt the strategies tried so far are the first ones of
\* exact-text, script-driven, case-insensitive, in that order; every
\* strategy before the last one tried has failed; none is tried in an attempt
\* whose option list has one entry or none.
C13_StrategyOrder ==
    /\ Len(sel_tried) <= Len(StrategyOrder)
    /\ \A i \in 1..Len(sel_tried) :
          /\ sel_tried[i].strategy = StrategyOrder[i]
          /\ i < Len(sel_tried) => ~sel_tried[i].ok
    /\ sel_tried # <<>> => Len(sel_options) > 1
    /\ sel_pc \in {"exact", "js", "case"} => Len(sel_options) > 1

\* the third strategy succeeded after the first two failed
C13_Witness ==
    /\ sel_pc = "returned"
    /\ sel_result
    /\ Len(sel_tried) = 3
    /\ sel_attempt = 2

\* C14: _set_select_value begins at most max_retries attempts, it never
\* raises, and it has returned False when it returned without a strategy
\* having succeeded.
C14_BoundedRetry ==
    /\ sel_attempt <= sel_max_retries
    /\ sel_pc # "raised"
    /\ sel_pc = "returned" =>
          (sel_result <=> (sel_tried # <<>> /\ sel_tried[Len(sel_tried)].ok))

\* all attempts were used up by stale and missing elements
C14_Witness ==
    /\ sel_pc = "returned"
    /\ ~sel_result
    /\ sel_max_retries = SELECT_MAX_RETRIES
    /\ sel_attempt = SELECT_MAX_RETRIES
    /\ sel_stale = STALE_RETRIES

(* ============================ date strings ============================= *)
DateStr(a, b, c, padded) == [f1 |-> a, f2 |-> b, f3 |-> c, pad |-> padded]

\* the date strings a caller passes: two ISO dates, a date without zero
\* padding, a day that does not exist, a date written day first
DateInputs ==
    {DateStr(2023, 7, 15, TRUE), DateStr(2023, 9, 5, TRUE),
     DateStr(2023, 9, 5, FALSE), DateStr(2023, 2, 30, TRUE),
     DateStr(15, 7, 2023, TRUE)}

IsLeap(y) == (y % 4 = 0 /\ y % 100 # 0) \/ y % 400 = 0

DaysInMonth(y, m) ==
    IF m = 2 THEN (IF IsLeap(y) THEN 29 ELSE 28)
    ELSE IF m \in {4, 6, 9, 11} THEN 30 ELSE 31

\* datetime.strptime(s, "%Y-%m-%d") does not raise ValueError: four digits
\* of year, a month and a day of one or two digits that exist
Parses(s) ==
    /\ s.f1 \in 1000..9999
    /\ s.f2 \in 1..12
    /\ s.f3 \in 1..DaysInMonth(s.f1, s.f2)

\* datetime.strptime(s, "%Y-%m-%d"), for a string that parses
Strptime(s) == [year |-> s.f1, month |-> s.f2, day |-> s.f3]

\* d.strftime("%Y-%m-%d")
Strftime(d) == DateStr(d.year, d.month, d.day, TRUE)

\* == on two strings: padding shows only on a one-digit number
SameText(a, b) ==
    /\ a.f1 = b.f1 /\ a.f2 = b.f2 /\ a.f3 = b.f3
    /\ (a.pad = b.pad \/ (a.f2 >= 10 /\ a.f3 >= 10))

\* < on two datetimes
Earlier(a, b) ==
    \/ a.year < b.year
    \/ a.year = b.year /\ a.month < b.month
    \/ a.year = b.year /\ a.month = b.month /\ a.day < b.day

ValidateDatesMutNoFormat(s, e) == ~Earlier(Strptime(e), Strptime(s))

ValidateDatesMutStrict(s, e) ==
    /\ Parses(s)
    /\ Parses(e)
    /\ Earlier(Strptime(s), Strptime(e))

\* _validate_dates
ValidateDates(s, e) ==
    /\ Parses(s)
    /\ Parses(e)
    /\ ~Earlier(Strptime(e), Strptime(s))

\* what a date field can hold: nothing, or a date the widget wrote, which
\* it writes as YYYY-MM-DD
FieldValues ==
    {EmptyField}
    \cup {Strftime(Strptime(s)) : s \in {t \in DateInputs : Parses(t)}}

\* the string the field is compared with after the day is clicked
ExpectedValue(variant, date_str) ==
    IF variant = "scraper" THEN Strftime(Strptime(date_str)) ELSE date_str

(* ============================ the date range =========================== *)
\* the default of max_retries of _set_dates, which the scraper also hands
\* to _retry_set_date_in_calendar
DATE_MAX_RETRIES == 3

datesOthers == <<sweepVars, tableVars, selectVars, calVars, filterVars,
                 unitVars>>

\* _set_dates is called on two date strings
DatesInit ==
    /\ date_variant \in {"scraper", "handler"}
    /\ start_date \in DateInputs
    /\ end_date \in DateInputs
    /\ dates_pc = "validate"
    /\ dates_attempt = 0
    /\ dates_retry = 0
    /\ dates_start_ok = FALSE
    /\ start_value = EmptyField
    /\ end_value = EmptyField
    /\ dates_result = FALSE
    /\ ui_log = <<>>

DatesReturn(v) ==
    /\ dates_pc' = "returned"
    /\ dates_result' = v

\* if not self._validate_dates(start_date, end_date): return False
CallValidateDates ==
    /\ dates_pc = "validate"
    /\ IF ValidateDates(start_date, end_date)
       THEN dates_pc' = "loop" /\ UNCHANGED dates_result
       ELSE DatesReturn(FALSE)
    /\ UNCHANGED <<date_variant, start_date, end_date, dates_attempt,
                   dates_retry, dates_start_ok, start_value, end_value,
                   ui_log, datesOthers>>

\* for attempt in range(max_retries)
DatesBeginAttempt ==
    /\ dates_pc = "loop"
    /\ dates_attempt < DATE_MAX_RETRIES
    /\ dates_attempt' = dates_attempt + 1
    /\ dates_retry' = 0
    /\ dates_start_ok' = FALSE
    /\ dates_pc' = "start"
    /\ UNCHANGED <<date_variant, start_date, end_date, start_value,
                   end_value, dates_result, ui_log, datesOthers>>

DatesExhausted ==
    /\ dates_pc = "loop"
    /\ dates_attempt >= DATE_MAX_RETRIES
    /\ DatesReturn(FALSE)
    /\ UNCHANGED <<date_variant, start_date, end_date, dates_attempt,
                   dates_retry, dates_start_ok, start_value, end_value,
                   ui_log, datesOthers>>

AfterSetterFailsMutGoOn(variant, retry, field) ==
    IF field = "start" THEN "end" ELSE "verify"

\* where _set_dates goes when the calendar setter returned False: the
\* scraper calls it again up to max_retries times and then returns False,
\* the handler goes to its next attempt
AfterSetterFails(variant, retry, field) ==
    IF variant = "scraper"
    THEN (IF retry + 1 < DATE_MAX_RETRIES THEN field ELSE "returned")
    ELSE "loop"

\* one call of _set_date_in_calendar from _set_dates; it returns True only
\* with the field holding the string it compares with, and what it does to
\* the page can clear the other field
SetDateField(field, date_str, okPc) ==
    \E ok \in BOOLEAN, v \in FieldValues, clears \in BOOLEAN :
        /\ ok => SameText(v, ExpectedValue(date_variant, date_str))
        /\ IF field = "start"
           THEN /\ start_value' = v
                /\ end_value' = IF clears THEN EmptyField ELSE end_value
                /\ dates_start_ok' = ok
           ELSE /\ end_value' = v
                /\ start_value' = IF clears THEN EmptyField ELSE start_value
                /\ UNCHANGED dates_start_ok
        /\ ui_log' = IF dates_retry = 0
                     THEN Append(ui_log, field \o "_date") ELSE ui_log
        /\ LET to == IF ok THEN okPc
                     ELSE AfterSetterFails(date_variant, dates_retry, field)
           IN /\ dates_pc' = to
              /\ dates_retry' = IF to = field THEN dates_retry + 1 ELSE 0
              /\ dates_result' = IF to = "returned" THEN FALSE
                                 ELSE dates_result
        /\ UNCHANGED <<date_variant, start_date, end_date, dates_attempt,
                       datesOthers>>

SetStartDate ==
    /\ dates_pc = "start"
    /\ SetDateField("start", start_date, "end")

SetEndDate ==
    /\ dates_pc = "end"
    /\ SetDateField("end", end_date, "verify")

\* the final read of both fields; an exception while reading, like a
\* mismatch, leads to the next attempt
VerifyDates ==
    /\ dates_pc = "verify"
    /\ \E raises \in BOOLEAN :
          IF /\ ~raises
             /\ SameText(start_value, ExpectedValue(date_variant, start_date))
             /\ SameText(end_value, ExpectedValue(date_variant, end_date))
          THEN DatesReturn(TRUE)
          ELSE dates_pc' = "loop" /\ UNCHANGED dates_result
    /\ UNCHANGED <<date_variant, start_date, end_date, dates_attempt,
                   dates_retry, dates_start_ok, start_value, end_value,
                   ui_log, datesOthers>>

DatesNext ==
    \/ CallValidateDates
    \/ DatesBeginAttempt
    \/ DatesExhausted
    \/ SetStartDate
    \/ SetEndDate
    \/ VerifyDates


(* ========================= the filter orchestrator ===================== *)
\* the fields of filter_sequence, in its order, and the step after them
FILTER_SEQUENCE == <<"county", "market", "product", "per_page">>
\* the default of max_retries of _retry_click_filter_button
CLICK_MAX_RETRIES == 3

filterOthers == <<sweepVars, tableVars, selectVars, calVars, unitVars>>

\* set_filters is called; it uses the scraper's own _set_dates
FilterInit ==
    /\ flt_pc = "navigate"
    /\ flt_done = {}
    /\ flt_failed = "none"
    /\ flt_click = 0
    /\ flt_result = FALSE
    /\ date_variant = "scraper"
    /\ start_date \in DateInputs
    /\ end_date \in DateInputs
    /\ dates_pc = "idle"
    /\ dates_attempt = 0
    /\ dates_retry = 0
    /\ dates_start_ok = FALSE
    /\ start_value = EmptyField
    /\ end_value = EmptyField
    /\ dates_result = FALSE
    /\ ui_log = <<>>

datesState == <<date_variant, start_date, end_date, dates_pc, dates_attempt,
                dates_retry, dates_start_ok, start_value, end_value,
                dates_result>>

FilterFails(step) ==
    /\ flt_failed' = step
    /\ flt_pc' = "returned"
    /\ flt_result' = FALSE
    /\ UNCHANGED flt_done

\* driver.get and _wait_for_page_load: either can raise, and the except
\* clause of set_filters returns False
Navigate ==
    /\ flt_pc = "navigate"
    /\ ui_log' = Append(ui_log, "navigate")
    /\ \E raises \in BOOLEAN :
          IF raises THEN FilterFails("navigate")
          ELSE /\ flt_done' = flt_done \cup {"navigate"}
               /\ flt_pc' = FILTER_SEQUENCE[1]
               /\ UNCHANGED <<flt_failed, flt_result>>
    /\ UNCHANGED <<flt_click, datesState, filterOthers>>

StepAfter(step) ==
    IF \E i \in 1..(Len(FILTER_SEQUENCE) - 1) : FILTER_SEQUENCE[i] = step
    THEN FILTER_SEQUENCE[
            (CHOOSE i \in 1..Len(FILTER_SEQUENCE) : FILTER_SEQUENCE[i] = step)
            + 1]
    ELSE "dates"

AfterFieldMutIgnoreFailure(step, ok) == StepAfter(step)

\* _apply_filters_in_sequence: the next field after a field that was set,
\* return False after one that was not
AfterField(step, ok) == IF ok THEN StepAfter(step) ELSE "returned"

\* one pass of the loop of _apply_filters_in_sequence: a call of
\* _set_select_value, which returns True or False
SetFilterValue ==
    /\ flt_pc \in Range(FILTER_SEQUENCE)
    /\ ui_log' = Append(ui_log, flt_pc)
    /\ \E ok \in BOOLEAN :
          /\ flt_pc' = AfterField(flt_pc, ok)
          /\ flt_done' = IF ok THEN flt_done \cup {flt_pc} ELSE flt_done
          /\ flt_failed' = IF ok THEN flt_failed ELSE flt_pc
    /\ UNCHANGED <<flt_click, flt_result, datesState, filterOthers>>

\* self._set_dates(start_date, end_date) is entered
CallSetDates ==
    /\ flt_pc = "dates"
    /\ dates_pc = "idle"
    /\ dates_pc' = "validate"
    /\ UNCHANGED <<date_variant, start_date, end_date, dates_attempt,
                   dates_retry, dates_start_ok, start_value, end_value,
                   dates_result, ui_log, filterVars, filterOthers>>

\* if not self._set_dates(...): return False
SetDatesReturned ==
    /\ flt_pc = "dates"
    /\ dates_pc = "returned"
    /\ IF dates_result
       THEN /\ flt_done' = flt_done \cup {"dates"}
            /\ flt_pc' = "submit"
            /\ UNCHANGED <<flt_failed, flt_result>>
       ELSE FilterFails("dates")
    /\ UNCHANGED <<flt_click, datesState, ui_log, filterOthers>>

\* one pass of the loop of _retry_click_filter_button: the button does not
\* become clickable, or it is clicked and the results table appears or
\* does not
ClickFilterButton ==
    /\ flt_pc = "submit"
    /\ flt_click < CLICK_MAX_RETRIES
    /\ flt_click' = flt_click + 1
    /\ \E clicked \in {"not_clickable", "no_table", "loaded"} :
          /\ ui_log' = IF clicked = "not_clickable" THEN ui_log
                       ELSE Append(ui_log, "submit")
          /\ IF clicked = "loaded"
             THEN /\ flt_done' = flt_done \cup {"submit"}
                  /\ flt_pc' = "returned"
                  /\ flt_result' = TRUE
             ELSE UNCHANGED <<flt_done, flt_pc, flt_result>>
    /\ UNCHANGED <<flt_failed, datesState, filterOthers>>

ClickExhausted ==
    /\ flt_pc = "submit"
    /\ flt_click >= CLICK_MAX_RETRIES
    /\ FilterFails("submit")
    /\ UNCHANGED <<flt_click, datesState, ui_log, filterOthers>>

FilterNext ==
    \/ Navigate
    \/ SetFilterValue
    \/ CallSetDates
    \/ CallValidateDates
    \/ DatesBeginAttempt
    \/ DatesExhausted
    \/ SetStartDate
    \/ SetEndDate
    \/ VerifyDates
    \/ SetDatesReturned
    \/ ClickFilterButton
    \/ ClickExhausted

\* a call of set_filters with everything else at rest
FilterCall ==
    /\ SweepIdle
    /\ TableIdle /\ SelectIdle /\ CalendarIdle
    /\ UnitsIdle
    /\ FilterInit

FilterSpec == FilterCall /\ [][FilterNext]_vars

\* the place of each step in the order of the protocol
StepRank(step) ==
    CASE step = "navigate" -> 1
      [] step = "county" -> 2
      [] step = "market" -> 3
      [] step = "product" -> 4
      [] step = "per_page" -> 5
      [] step = "start_date" -> 6
      [] step = "end_date" -> 7
      [] step = "dates" -> 7
      [] step = "submit" -> 8

\* the same with the two date fields as the one step of the date range
RangeRank(step) == IF step = "start_date" THEN 7 ELSE StepRank(step)

\* what C11 says apart from the order of the steps: a step that failed
\* ended the call with False and nothing after it was tried, submit is
\* clicked only after the four fields and the date range were set, and
\* the call does not raise
FailureEndsCall ==
    /\ flt_failed # "none" =>
          /\ flt_pc = "returned"
          /\ ~flt_result
          /\ \A i \in 1..Len(ui_log) :
                StepRank(ui_log[i]) <= StepRank(flt_failed)
    /\ (\E i \in 1..Len(ui_log) : ui_log[i] = "submit") =>
          Range(FILTER_SEQUENCE) \cup {"navigate", "dates"} \subseteq flt_done
    /\ \A i \in 1..Len(ui_log) :
          \A k \in 1..(StepRank(ui_log[i]) - 1) :
              k <= 5 => \E j \in 1..(i - 1) : StepRank(ui_log[j]) = k
    /\ flt_pc # "raised"
    /\ flt_pc = "returned" => flt_result \in BOOLEAN

\* C11 as stated: within one call of set_filters the steps are taken only
\* in the order navigate, county, market, product, page size, start date,
\* end date, submit; the first step that fails ends the call with False
\* and no later step is tried; submit is clicked only after all four
\* fields and the date range were set; the call returns a boolean and does
\* not raise.
C11_FilterProtocolOrder ==
    /\ \A i, j \in 1..Len(ui_log) :
          i < j => StepRank(ui_log[i]) <= StepRank(ui_log[j])
    /\ FailureEndsCall

\* C11 amended: the same, with the date range as one step between page
\* size and submit that sets the start date and then the end date and, when
\* its final read of the two fields does not match, sets both again, so
\* that a start date can follow an end date.
C11_FilterProtocolOrderByRange ==
    /\ \A i, j \in 1..Len(ui_log) :
          i < j => RangeRank(ui_log[i]) <= RangeRank(ui_log[j])
    /\ \A i \in 1..Len(ui_log) :
          ui_log[i] = "end_date" => i > 1 /\ ui_log[i - 1] = "start_date"
    /\ FailureEndsCall

\* the date range was set twice and submit then loaded the table
C11_Witness ==
    /\ flt_pc = "returned"
    /\ flt_result
    /\ ui_log = <<"navigate", "county", "market", "product", "per_page",
                  "start_date", "end_date", "start_date", "end_date",
                  "submit">>

(* ============================== the calendar =========================== *)
MaxDrift == 25

\* max_attempts of the navigation loop
MAX_NAV_ATTEMPTS == 24

\* the variables of a call of _set_dates other than the variant
datesRest == <<start_date, end_date, dates_pc, dates_attempt, dates_retry,
               dates_start_ok, start_value, end_value, dates_result,
               ui_log>>

calOthers == <<sweepVars, tableVars, selectVars, filterVars, datesRest,
               unitVars>>

MonthIndex(c) == c.year * 12 + (c.month - 1)

\* the caption n months after the caption c
AddMonths(c, n) ==
    [year |-> (MonthIndex(c) + n) \div 12,
     month |-> ((MonthIndex(c) + n) % 12) + 1]

\* the comparison of the caption with the target by year, then month
MonthEarlier(a, b) ==
    \/ a.year < b.year
    \/ a.year = b.year /\ a.month < b.month

TargetDate == Strptime(cal_date_str)
TargetMonth == [year |-> TargetDate.year, month |-> TargetDate.month]

\* what the page can do: a reliable widget never raises
Raises == IF cal_reliable THEN {FALSE} ELSE BOOLEAN

\* _set_date_in_calendar is called on a date string
CalendarInit ==
    /\ date_variant \in {"scraper", "handler"}
    /\ cal_date_str \in DateInputs
    /\ cal_reliable \in BOOLEAN
    /\ cal_pc = "parse"
    /\ nav_attempts = 0
    /\ cal_current = NoCaption
    /\ cal_initial = NoCaption
    /\ cal_value = EmptyField
    /\ cal_ui = FALSE
    /\ cal_click = NoClick
    /\ cal_day_clicked = FALSE
    /\ cal_nav = "none"
    /\ cal_result = FALSE

CalendarReturn(v) ==
    /\ cal_pc' = "returned"
    /\ cal_result' = v

\* target_date = datetime.strptime(date_str, "%Y-%m-%d"); a ValueError is
\* caught by the except clause, which returns False
ParseDate ==
    /\ cal_pc = "parse"
    /\ IF Parses(cal_date_str)
       THEN cal_pc' = "open" /\ UNCHANGED cal_result
       ELSE CalendarReturn(FALSE)
    /\ UNCHANGED <<cal_date_str, cal_reliable, nav_attempts, cal_current,
                   cal_initial, cal_value, cal_ui, cal_click,
                   cal_day_clicked, cal_nav, date_variant, calOthers>>

\* wait for the field, scroll to it, click it, wait for the open calendar,
\* which shows some month
OpenCalendar ==
    /\ cal_pc = "open"
    /\ cal_ui' = TRUE
    /\ \E raises \in Raises, drift \in (0 - MaxDrift)..MaxDrift :
          IF raises
          THEN /\ CalendarReturn(FALSE)
               /\ UNCHANGED <<cal_current, cal_initial>>
          ELSE /\ cal_current' = AddMonths(TargetMonth, drift)
               /\ cal_initial' = cal_current'
               /\ cal_pc' = "navigate"
               /\ UNCHANGED cal_result
    /\ UNCHANGED <<cal_date_str, cal_reliable, nav_attempts, cal_value,
                   cal_click, cal_day_clicked, cal_nav, date_variant,
                   calOthers>>

\* while attempts < max_attempts
NavigationAllowed(attempts_) == attempts_ < MAX_NAV_ATTEMPTS

\* one pass of the navigation loop: read the caption and click next or
\* previous, which counts as an attempt, or find the target month shown;
\* an exception counts as an attempt too
NavigateStep ==
    /\ cal_pc = "navigate"
    /\ NavigationAllowed(nav_attempts)
    /\ \E raises \in Raises,
          moved \in (IF cal_reliable THEN {1} ELSE {0, 1}) :
          IF raises
          THEN /\ nav_attempts' = nav_attempts + 1
               /\ UNCHANGED <<cal_current, cal_click, cal_pc, cal_nav>>
          ELSE IF MonthEarlier(cal_current, TargetMonth)
          THEN /\ cal_click' = [dir |-> "next", from |-> cal_current]
               /\ cal_current' = AddMonths(cal_current, moved)
               /\ nav_attempts' = nav_attempts + 1
               /\ UNCHANGED <<cal_pc, cal_nav>>
          ELSE IF MonthEarlier(TargetMonth, cal_current)
          THEN /\ cal_click' = [dir |-> "previous", from |-> cal_current]
               /\ cal_current' = AddMonths(cal_current, 0 - moved)
               /\ nav_attempts' = nav_attempts + 1
               /\ UNCHANGED <<cal_pc, cal_nav>>
          ELSE /\ cal_pc' = "day"
               /\ cal_nav' = "reached"
               /\ UNCHANGED <<cal_current, cal_click, nav_attempts>>
    /\ UNCHANGED <<cal_date_str, cal_reliable, cal_initial, cal_value,
                   cal_ui, cal_day_clicked, cal_result, date_variant,
                   calOthers>>

\* the loop ends without the target month found: ValueError, caught by
\* the except clause, which returns False
NavigationExhausted ==
    /\ cal_pc = "navigate"
    /\ ~NavigationAllowed(nav_attempts)
    /\ cal_nav' = "failed"
    /\ CalendarReturn(FALSE)
    /\ UNCHANGED <<cal_date_str, cal_reliable, nav_attempts, cal_current,
                   cal_initial, cal_value, cal_ui, cal_click,
                   cal_day_clicked, date_variant, calOthers>>

FieldVerifiedMutAlways(actual_value, expected_value) == TRUE

\* actual_value == expected_value
FieldVerified(actual_value, expected_value) ==
    SameText(actual_value, expected_value)

\* look for the day among the enabled cells of the month; click it, read
\* the field and compare
SelectDay ==
    /\ cal_pc = "day"
    /\ \E found \in (IF cal_reliable THEN {TRUE} ELSE BOOLEAN),
          v \in (IF cal_reliable THEN {Strftime(TargetDate)}
                 ELSE FieldValues) :
          IF found
          THEN /\ cal_day_clicked' = TRUE
               /\ cal_value' = v
               /\ CalendarReturn(
                     FieldVerified(v, ExpectedValue(date_variant,
                                                    cal_date_str)))
          ELSE /\ CalendarReturn(FALSE)
               /\ UNCHANGED <<cal_day_clicked, cal_value>>
    /\ UNCHANGED <<cal_date_str, cal_reliable, nav_attempts, cal_current,
                   cal_initial, cal_ui, cal_click, cal_nav, date_variant,
                   calOthers>>

CalendarNext ==
    \/ ParseDate
    \/ OpenCalendar
    \/ NavigateStep
    \/ NavigationExhausted
    \/ SelectDay

\* a call of _set_date_in_calendar or a call of _set_dates
DateInit ==
    \/ CalendarInit /\ start_date = EmptyField /\ end_date = EmptyField
       /\ dates_pc = "idle" /\ dates_attempt = 0 /\ dates_retry = 0
       /\ dates_start_ok = FALSE /\ start_value = EmptyField
       /\ end_value = EmptyField /\ dates_result = FALSE /\ ui_log = <<>>
    \/ DatesInit /\ CalendarIdle

DateNext ==
    \/ CalendarNext
    \/ DatesNext

\* a call of one of the two with everything else at rest
DateCall ==
    /\ SweepIdle
    /\ TableIdle /\ SelectIdle /\ FilterIdle
    /\ UnitsIdle
    /\ DateInit

DateSpec == DateCall /\ [][DateNext]_vars

(* ====================== properties of the date steps =================== *)
Abs(n) == IF n < 0 THEN 0 - n ELSE n

\* how many months the calendar showed away from the target when it opened
InitialDrift == Abs(MonthIndex(cal_initial) - MonthIndex(TargetMonth))

BothParse == Parses(start_date) /\ Parses(end_date)

NoDateUi ==
    /\ ui_log = <<>>
    /\ start_value = EmptyField
    /\ end_value = EmptyField

\* C15: on a date string that strptime does not take as %Y-%m-%d,
\* _set_date_in_calendar returns False without having looked at or acted
\* on the page, and _set_dates returns False without having touched a date
\* field and without having begun an attempt.
C15_DateFormatValidation ==
    /\ (cal_pc # "idle" /\ ~Parses(cal_date_str)) =>
          /\ cal_pc \in {"parse", "returned"}
          /\ ~cal_ui
          /\ ~cal_result
    /\ (dates_pc # "idle" /\ ~BothParse) =>
          /\ dates_pc \in {"validate", "returned"}
          /\ NoDateUi
          /\ dates_attempt = 0
          /\ ~dates_result

\* _set_dates has returned on an end date that does not exist
C15_Witness ==
    /\ dates_pc = "returned"
    /\ Parses(start_date)
    /\ ~Parses(end_date)

\* C16: on two dates that parse with the end earlier than the start,
\* _set_dates returns False without having touched either date field; on
\* two dates that parse and are the same day it goes on to its attempts.
C16_EmptyRangeValidation ==
    /\ (/\ dates_pc # "idle"
        /\ BothParse
        /\ Earlier(Strptime(end_date), Strptime(start_date))) =>
          /\ dates_pc \in {"validate", "returned"}
          /\ NoDateUi
          /\ ~dates_result
    /\ (/\ dates_pc = "returned"
        /\ BothParse
        /\ ~Earlier(Strptime(end_date), Strptime(start_date))
        /\ ~Earlier(Strptime(start_date), Strptime(end_date))) =>
          dates_attempt >= 1

\* a range of one day was set and verified
C16_Witness ==
    /\ dates_pc = "returned"
    /\ dates_result
    /\ BothParse
    /\ Strptime(start_date) = Strptime(end_date)

\* C17: _set_date_in_calendar has returned True only if the day cell was
\* clicked and the field then held the target date as YYYY-MM-DD; it has
\* returned False when the field held something else, when the day was not
\* found and when the navigation failed.
C17_CalendarPostcondition ==
    (cal_pc = "returned" /\ cal_result) =>
        /\ cal_nav = "reached"
        /\ cal_day_clicked
        /\ cal_value = Strftime(TargetDate)

\* a date was set after the calendar had opened on another month
C17_Witness ==
    /\ cal_pc = "returned"
    /\ cal_result
    /\ cal_initial # TargetMonth
    /\ ~cal_reliable

\* C18: with a widget that moves one month per click, a call that opened
\* the calendar at most 24 months before or after the target month has
\* reached the target month and clicked the day; next is clicked only with
\* a caption earlier than the target and previous only with a later one;
\* the navigation fails only from more than 24 months away.
C18_NavigationReach ==
    /\ (cal_reliable /\ cal_pc = "returned" /\ cal_initial # NoCaption) =>
          /\ InitialDrift <= MAX_NAV_ATTEMPTS =>
                cal_nav = "reached" /\ cal_day_clicked
          /\ cal_nav = "failed" => InitialDrift > MAX_NAV_ATTEMPTS
    /\ cal_click.dir = "next" => MonthEarlier(cal_click.from, TargetMonth)
    /\ cal_click.dir = "previous" =>
          MonthEarlier(TargetMonth, cal_click.from)

\* C19: within _set_dates the end date field is worked on only after the
\* start date was set in the same attempt, and _set_dates has returned
\* True only with both fields holding the strings expected of them.
C19_DateRangeProtocol ==
    /\ dates_pc \in {"end", "verify"} => dates_start_ok
    /\ \A i \in 1..Len(ui_log) :
          ui_log[i] = "end_date" => i > 1 /\ ui_log[i - 1] = "start_date"
    /\ (dates_pc = "returned" /\ dates_result) =>
          /\ SameText(start_value, ExpectedValue(date_variant, start_date))
          /\ SameText(end_value, ExpectedValue(date_variant, end_date))

\* the range was verified in a second attempt
C19_Witness ==
    /\ dates_pc = "returned"
    /\ dates_result
    /\ dates_attempt = 2
    /\ Strptime(start_date) # Strptime(end_date)

(* ---------------- paginated extraction (scrap_data.py) ------------------ *)
\* scrape_table of scrap_data.py walks the result pages.  A page is the
\* number of its data rows; row k of page p is <<p, k>>.
MaxPages == 3
MaxPageRows == 2

\* a next click that does not take is followed by another pass on the same
\* page; the passes are counted up to this number
MaxPageNum == MaxPages + 1

RECURSIVE SeqsUpTo(_, _)
SeqsUpTo(S, n) ==
    IF n = 0 THEN {<<>>}
    ELSE LET shorter == SeqsUpTo(S, n - 1)
         IN shorter \cup {Append(q, x) : q \in shorter, x \in S}

PageLists == SeqsUpTo(0..MaxPageRows, MaxPages) \ {<<>>}

PageRows(p, n) == [k \in 1..n |-> <<p, k>>]

\* pd.concat of a list of frames, in the order of the list
RECURSIVE ConcatRows(_)
ConcatRows(frames) ==
    IF frames = <<>> THEN <<>>
    ELSE frames[1].rows \o ConcatRows(Tail(frames))

\* the rows of all pages in page order
AllPageRows(ps) ==
    ConcatRows([p \in 1..Len(ps) |-> Frame(PageRows(p, ps[p]))])

\* the truth value of page_data in "if page_data:": None is false, and a
\* DataFrame, whatever it holds, raises ValueError (its truth value is
\* ambiguous)
TruthValue(page_data) == IF page_data.none THEN "false" ELSE "raises"

pageOthers == <<sweepVars, tableVars, selectVars, datesVars, calVars,
                filterVars, finalVars, optVars, sessionVars, startVars,
                variantVars, cellVars, lateVars>>

PageInit ==
    /\ pages \in PageLists
    /\ pg_shown = 1
    /\ page_num = 0
    /\ pg_all_data = <<>>
    /\ pg_pc = "wait"
    /\ pg_result = NoFrame
    /\ pg_ui_error = FALSE

PageReturn(r) ==
    /\ pg_pc' = "returned"
    /\ pg_result' = r

\* _wait_for_table_load before the loop: it re-raises, and the except clause
\* of scrape_table returns None
WaitForTableLoad ==
    /\ pg_pc = "wait"
    /\ \E ok \in BOOLEAN :
          /\ IF ok THEN pg_pc' = "available" /\ UNCHANGED pg_result
                   ELSE PageReturn(NoFrame)
          /\ pg_ui_error' = (pg_ui_error \/ ~ok)
    /\ UNCHANGED <<pages, pg_shown, page_num, pg_all_data, pageOthers>>

\* _is_data_available: more tr elements than the header row; an error gives
\* False
IsDataAvailable ==
    /\ pg_pc = "available"
    /\ \E ok \in BOOLEAN :
          /\ IF ok /\ 1 + pages[pg_shown] > 1
                THEN /\ page_num' = 1
                     /\ pg_pc' = "page"
                     /\ UNCHANGED pg_result
                ELSE /\ PageReturn(NoFrame)
                     /\ UNCHANGED page_num
          /\ pg_ui_error' = (pg_ui_error \/ ~ok)
    /\ UNCHANGED <<pages, pg_shown, pg_all_data, pageOthers>>

\* the head of a pass of the loop: wait, extract, keep the page's frame
ExtractPage ==
    /\ pg_pc = "page"
    /\ \E ui \in {"ok", "wait_raises", "extract_raises"} :
          LET page_data == IF ui = "ok"
                             THEN Frame(PageRows(pg_shown, pages[pg_shown]))
                             ELSE NoFrame
          IN /\ IF ui = "wait_raises" \/ TruthValue(page_data) = "raises"
                   THEN /\ PageReturn(NoFrame)
                        /\ UNCHANGED pg_all_data
                   ELSE /\ pg_all_data' =
                              IF TruthValue(page_data) = "true"
                                THEN Append(pg_all_data, page_data)
                                ELSE pg_all_data
                        /\ pg_pc' = "next"
                        /\ UNCHANGED pg_result
             /\ pg_ui_error' = (pg_ui_error \/ ui # "ok")
    /\ UNCHANGED <<pages, pg_shown, page_num, pageOthers>>

\* the next control is enabled while the shown page is not the last one;
\* _has_next_page gives False on an error
HasNextPage(ok) == ok /\ pg_shown < Len(pages)

\* _has_next_page is true: page_num += 1 and _go_to_next_page, which
\* swallows the error of a click that fails
GoToNextPage ==
    /\ pg_pc = "next"
    /\ HasNextPage(TRUE)
    /\ \E clicked \in BOOLEAN :
          /\ clicked \/ page_num < MaxPageNum
          /\ pg_shown' = IF clicked THEN pg_shown + 1 ELSE pg_shown
          /\ pg_ui_error' = (pg_ui_error \/ ~clicked)
    /\ page_num' = page_num + 1
    /\ pg_pc' = "page"
    /\ UNCHANGED <<pages, pg_all_data, pg_result, pageOthers>>

\* _has_next_page is false: break
PageLoopBreak ==
    /\ pg_pc = "next"
    /\ \E ok \in BOOLEAN :
          /\ ~HasNextPage(ok)
          /\ pg_ui_error' = (pg_ui_error \/ ~ok)
    /\ pg_pc' = "concat"
    /\ UNCHANGED <<pages, pg_shown, page_num, pg_all_data, pg_result,
                   pageOthers>>

\* after the loop: the concatenation of the kept frames, None without any
ConcatPages ==
    /\ pg_pc = "concat"
    /\ PageReturn(IF pg_all_data # <<>>
                    THEN Frame(ConcatRows(pg_all_data))
                    ELSE NoFrame)
    /\ UNCHANGED <<pages, pg_shown, page_num, pg_all_data, pg_ui_error,
                   pageOthers>>

PageNext ==
    \/ WaitForTableLoad
    \/ IsDataAvailable
    \/ ExtractPage
    \/ GoToNextPage
    \/ PageLoopBreak
    \/ ConcatPages

\* a call of the paginated scrape_table with everything else at rest
PageCall ==
    /\ SweepIdle
    /\ BrowserIdle
    /\ UnitsIdleExcept("page")
    /\ PageInit

PageSpec == PageCall /\ [][PageNext]_vars

\* C21: when the first page has data rows and no browser call fails, the
\* paginated scrape_table returns the rows of every page concatenated in
\* page order, each page's rows exactly once.
C21_PaginatedExtraction ==
    (pg_pc = "returned" /\ ~pg_ui_error /\ pages[1] >= 1) =>
        pg_result = Frame(AllPageRows(pages))

\* C36 as stated: every pass of the page loop is on a page that no earlier
\* pass was on, so that the loop makes at most as many passes as the result
\* set has pages: the pass counter is the number of the page shown.
C36_EachPassOnANewPage ==
    pg_pc \in {"page", "next"} =>
        /\ page_num = pg_shown
        /\ page_num <= Len(pages)

\* a call of either scrape_table with everything else at rest
ExtractCall ==
    /\ SweepIdle
    /\ SelectIdle /\ DatesIdle /\ CalendarIdle /\ FilterIdle
    /\ UnitsIdleExcept("page")
    /\ \/ TableInit /\ PageIdle
       \/ PageInit /\ TableIdle

ExtractNext == TableNext \/ PageNext

ExtractSpec == ExtractCall /\ [][ExtractNext]_vars

\* C22: scrape_table never raises: each call ends by returning, and it
\* returns None when the first page has no data rows and when a browser call
\* raised during the extraction.
C22_EmptyResultSignal ==
    /\ table_pc \in {"idle", "rows", "frame", "returned", "failed"}
    /\ pg_pc \in {"idle", "wait", "available", "page", "next", "concat",
                  "returned"}
    /\ (table_pc = "returned" /\ rows = <<>>) => table_df = NoDf
    /\ table_pc = "failed" => table_df = NoDf
    /\ (pg_pc = "returned" /\ (pages[1] = 0 \/ pg_ui_error)) =>
          pg_result = NoFrame

\* the single-page extractor returned on a table without body rows
C22_Witness ==
    /\ table_pc = "returned"
    /\ rows = <<>>
    /\ headers # <<>>

\* the paginated extractor returned on a first page without data rows
C22_WitnessPaginated ==
    /\ pg_pc = "returned"
    /\ pages[1] = 0
    /\ ~pg_ui_error

\* a row went stale under the single-page extractor
C22_WitnessError ==
    /\ table_pc = "failed"
    /\ data # <<>>

(* ------------------------ consolidated table --------------------------- *)
\* _save_final_results on the tables run_all appended to all_data.  A table
\* holds the rows of one cell, each tagged with the cell (the county, market,
\* product and scrape_date columns): a row is <<value, cell>>.
MaxTables == 2
MaxTableRows == 2

RowValues == {"a", "b"}
TaggingCells == {1, 2}

\* a verified table has a row at least
TaggedTables ==
    {Frame([k \in 1..Len(vs) |-> <<vs[k], c>>]) :
        vs \in SeqsUpTo(RowValues, MaxTableRows) \ {<<>>},
        c \in TaggingCells}

finalOthers == <<sweepVars, browserVars, pageVars, optVars, sessionVars,
                 startVars, variantVars, cellVars, lateVars>>

\* run_all calls it on a list that is not empty
FinalInit ==
    /\ fin_all_data \in SeqsUpTo(TaggedTables, MaxTables) \ {<<>>}
    /\ fin_pc = "concat"
    /\ final_df = NoFrame

\* final_df = pd.concat(all_data, ignore_index=True)
ConcatTables ==
    /\ fin_pc = "concat"
    /\ final_df' = Frame(ConcatRows(fin_all_data))
    /\ fin_pc' = "dedup"
    /\ UNCHANGED <<fin_all_data, finalOthers>>

\* final_df = final_df.drop_duplicates(); the frame is written and returned
DropDuplicateRows ==
    /\ fin_pc = "dedup"
    /\ final_df' = Frame(DropDuplicates(final_df.rows))
    /\ fin_pc' = "returned"
    /\ UNCHANGED <<fin_all_data, finalOthers>>

FinalNext ==
    \/ ConcatTables
    \/ DropDuplicateRows

FinalCall ==
    /\ SweepIdle
    /\ BrowserIdle
    /\ UnitsIdleExcept("final")
    /\ FinalInit

FinalSpec == FinalCall /\ [][FinalNext]_vars

Occurrences(seq, x) == Cardinality({i \in 1..Len(seq) : seq[i] = x})

TableRowSet(tables) ==
    UNION {Range(tables[i].rows) : i \in 1..Len(tables)}

\* C23: the consolidated table holds every distinct row of the cells' tables
\* exactly once, and no other row.
C23_Deduplication ==
    fin_pc = "returned" =>
        /\ ~final_df.none
        /\ Range(final_df.rows) = TableRowSet(fin_all_data)
        /\ \A r \in TableRowSet(fin_all_data) :
              Occurrences(final_df.rows, r) = 1

\* two tables with a row that is the same in all columns were consolidated
C23_Witness ==
    /\ fin_pc = "returned"
    /\ Len(fin_all_data) = 2
    /\ Range(fin_all_data[1].rows) \cap Range(fin_all_data[2].rows) # {}
    /\ Range(fin_all_data[1].rows) # Range(fin_all_data[2].rows)

(* ------------------------- page-size choice ---------------------------- *)
MaxEntries == 3001

entry_options == <<10, 50, 100, 1000, 1500, 3000>>

OptTotals == {NoTotal} \cup {<<n>> : n \in 0..MaxEntries}

\* the loop over reversed(entry_options), from index i downwards
RECURSIVE FirstOptionDownFrom(_, _)
FirstOptionDownFrom(i, n) ==
    IF i = 0 THEN entry_options[1]
    ELSE IF entry_options[i] <= n THEN entry_options[i]
    ELSE FirstOptionDownFrom(i - 1, n)

\* the loop taken over entry_options in ascending order
RECURSIVE FirstOptionUpFrom(_, _)
FirstOptionUpFrom(i, n) ==
    IF i > Len(entry_options) THEN entry_options[1]
    ELSE IF entry_options[i] <= n THEN entry_options[i]
    ELSE FirstOptionUpFrom(i + 1, n)

OptimizeEntriesMutAscending(total) ==
    IF ~Truthy(total) THEN entry_options[1]
    ELSE FirstOptionUpFrom(1, total[1])

\* _optimize_entries
OptimizeEntries(total) ==
    IF ~Truthy(total) THEN entry_options[1]
    ELSE FirstOptionDownFrom(Len(entry_options), total[1])

optOthers == <<sweepVars, browserVars, pageVars, finalVars, sessionVars,
               startVars, variantVars, cellVars, lateVars>>

OptInit ==
    /\ opt_total \in OptTotals
    /\ opt_pc = "called"
    /\ optimal_entries = 0

CallOptimizeEntries ==
    /\ opt_pc = "called"
    /\ optimal_entries' = OptimizeEntries(opt_total)
    /\ opt_pc' = "returned"
    /\ UNCHANGED <<opt_total, optOthers>>

OptNext == CallOptimizeEntries

OptCall ==
    /\ SweepIdle
    /\ BrowserIdle
    /\ UnitsIdleExcept("opt")
    /\ OptInit

OptSpec == OptCall /\ [][OptNext]_vars

OptionsUpTo(n) == {o \in Range(entry_options) : o <= n}

SetMax(S) == CHOOSE x \in S : \A y \in S : y <= x
SetMin(S) == CHOOSE x \in S : \A y \in S : x <= y

\* C24: _optimize_entries returns a page-size option: the largest one that
\* is at most the total when there is one, and the smallest option when
\* there is none or the total is None or 0.
C24_PageSizeChoice ==
    opt_pc = "returned" =>
        /\ optimal_entries \in Range(entry_options)
        /\ IF Truthy(opt_total) /\ OptionsUpTo(opt_total[1]) # {}
             THEN optimal_entries = SetMax(OptionsUpTo(opt_total[1]))
             ELSE optimal_entries = SetMin(Range(entry_options))

\* the choice was made for a total between two options
C24_Witness ==
    /\ opt_pc = "returned"
    /\ opt_total = <<1200>>
    /\ optimal_entries = 1000

(* --------------------------- unknown total ----------------------------- *)
\* C25: a cell is not abandoned because its total could not be read: the
\* sweep leaves a cell as skipped only on a total that was read.
C25_UnknownTotalProceeds ==
    (pc = "sleep" /\ outcome = "skipped") => total_entries # NoTotal

(* -------------------------- session recovery --------------------------- *)
\* _refresh_session and _reinitialize_driver step by step, over the calls
\* one scraper makes
MaxRefreshCalls == 4

sessionOthers == <<sweepVars, browserVars, pageVars, finalVars, optVars,
                   startVars, variantVars, cellVars, lateVars>>

\* a new scraper holds the driver its constructor created
SessionInit ==
    /\ ses_live = TRUE
    /\ ses_pc = "ready"
    /\ ses_calls = 0
    /\ ses_tier1 = "none"
    /\ ses_quit = "none"
    /\ ses_create = "none"

CallRefreshSession ==
    /\ ses_pc \in {"ready", "returned", "raised"}
    /\ ses_calls < MaxRefreshCalls
    /\ ses_calls' = ses_calls + 1
    /\ ses_pc' = "cookies"
    /\ ses_tier1' = "none"
    /\ ses_quit' = "none"
    /\ ses_create' = "none"
    /\ UNCHANGED <<ses_live, sessionOthers>>

\* a step of the first tier: it passes on a live session only, and any
\* error goes to _reinitialize_driver
TierOneStep(step, next) ==
    /\ ses_pc = step
    /\ \E ok \in BOOLEAN :
          /\ ok => ses_live
          /\ ses_tier1' = IF ~ok THEN step
                           ELSE IF next = "returned" THEN "ok" ELSE ses_tier1
          /\ ses_pc' = IF ok THEN next ELSE "quit"
    /\ UNCHANGED <<ses_live, ses_calls, ses_quit, ses_create, sessionOthers>>

\* self.driver.delete_all_cookies()
DeleteAllCookies == TierOneStep("cookies", "reload")

\* self.driver.refresh() and the sleep
Reload == TierOneStep("reload", "page_ready")

\* self._wait_for_page_load()
WaitForPageReady == TierOneStep("page_ready", "returned")

\* QuitDriver with the error of quit() passed on
QuitDriverMutPropagates ==
    /\ ses_pc = "quit"
    /\ \E ok \in BOOLEAN :
          /\ ses_quit' = IF ok THEN "ok" ELSE "raised"
          /\ ses_live' = IF ok THEN FALSE ELSE ses_live
          /\ ses_pc' = IF ok THEN "create" ELSE "raised"
    /\ UNCHANGED <<ses_calls, ses_tier1, ses_create, sessionOthers>>

\* try: self.driver.quit() / except: pass
QuitDriver ==
    /\ ses_pc = "quit"
    /\ \E ok \in BOOLEAN :
          /\ ses_quit' = IF ok THEN "ok" ELSE "raised"
          /\ ses_live' = IF ok THEN FALSE ELSE ses_live
    /\ ses_pc' = "create"
    /\ UNCHANGED <<ses_calls, ses_tier1, ses_create, sessionOthers>>

\* finally: self.driver = self._initialize_webdriver(True); what it raises
\* leaves _refresh_session
CreateDriver ==
    /\ ses_pc = "create"
    /\ \E ok \in BOOLEAN :
          /\ ses_create' = IF ok THEN "ok" ELSE "raised"
          /\ ses_live' = IF ok THEN TRUE ELSE ses_live
          /\ ses_pc' = IF ok THEN "returned" ELSE "raised"
    /\ UNCHANGED <<ses_calls, ses_tier1, ses_quit, sessionOthers>>

SessionNext ==
    \/ CallRefreshSession
    \/ DeleteAllCookies
    \/ Reload
    \/ WaitForPageReady
    \/ QuitDriver
    \/ CreateDriver

SessionCall ==
    /\ SweepIdle
    /\ BrowserIdle
    /\ UnitsIdleExcept("session")
    /\ SessionInit

SessionSpec == SessionCall /\ [][SessionNext]_vars

\* C27: the old session is torn down and a new one created exactly when the
\* first tier raised, whether or not the teardown raised; _refresh_session
\* raises only when creating the new session raised; after a normal return
\* the scraper holds a live session.
C27_TwoTierRecovery ==
    /\ ses_quit # "none" => ses_tier1 \in {"cookies", "reload", "page_ready"}
    /\ ses_tier1 \in {"cookies", "reload", "page_ready"} =>
          ses_pc \in {"quit", "create", "returned", "raised"}
    /\ ses_create # "none" => ses_quit # "none"
    /\ ses_pc = "create" => ses_quit # "none"
    /\ ses_pc = "raised" => ses_create = "raised"
    /\ ses_pc = "returned" =>
          /\ ses_live
          /\ ses_tier1 = "ok" \/ ses_create = "ok"

\* a call returned although tearing down the old session raised, on a
\* scraper whose session was dead
C27_Witness ==
    /\ ses_pc = "returned"
    /\ ses_calls >= 2
    /\ ses_quit = "raised"
    /\ ses_create = "ok"

(* ---------------------------- progress load ---------------------------- *)
\* Construction reads the progress file and run_all starts on what was
\* read.  A file that json.load accepts holds a JSON object with any of the
\* keys of a progress record; the timestamp is left out.
ProgressKeys == {"last_county", "last_market", "last_product", "completed"}

Restrict(record, keys) == [k \in keys |-> record[k]]

ParsedFiles ==
    {[state |-> "ok", data |-> Restrict(RecordOf(done), keys)] :
        done \in PriorSeqs \cup {<<ForeignCell>>},
        keys \in SUBSET ProgressKeys}

StartFiles ==
    {[state |-> "missing", data |-> DefaultProgress],
     [state |-> "corrupt", data |-> DefaultProgress]} \cup ParsedFiles

startOthers == <<sweepVars, browserVars, pageVars, finalVars, optVars,
                 sessionVars, variantVars, cellVars, lateVars>>

StartInit ==
    /\ st_file \in StartFiles
    /\ st_resume \in BOOLEAN
    /\ st_progress = DefaultProgress
    /\ st_pc = "construct"
    /\ st_start = [county |-> 0, market |-> 0, product |-> 0]

\* self.progress = self._load_progress(): what json.load returns is taken
\* as it is; a missing file and a JSONDecodeError give the default record
LoadProgressFile ==
    /\ st_pc = "construct"
    /\ st_progress' = LoadProgress(st_file)
    /\ st_pc' = "setup"
    /\ UNCHANGED <<st_file, st_resume, st_start, startOthers>>

HasKey(key) == key \in DOMAIN st_progress

\* the subscripts and list.index calls of lines 343-348 all pass
CursorResolves ==
    /\ HasKey("last_market") /\ HasKey("last_product")
    /\ Contains(counties, st_progress.last_county)
    /\ Contains(markets, st_progress.last_market)
    /\ Contains(products, st_progress.last_product)

\* lines 341-350: KeyError and ValueError are caught by the except clause of
\* run_all, which returns None
StartSetup ==
    /\ st_pc = "setup"
    /\ IF ~st_resume
         THEN /\ st_start' = [county |-> 0, market |-> 0, product |-> 0]
              /\ st_pc' = "skip_check"
         ELSE IF ~HasKey("last_county")
         THEN /\ st_pc' = "aborted"
              /\ UNCHANGED st_start
         ELSE IF st_progress.last_county = NONE
         THEN /\ st_start' = [county |-> 0, market |-> 0, product |-> 0]
              /\ st_pc' = "skip_check"
         ELSE IF CursorResolves
         THEN /\ st_start' =
                    [county |-> IndexOf(counties, st_progress.last_county),
                     market |-> IndexOf(markets, st_progress.last_market),
                     product |-> IndexOf(products, st_progress.last_product)]
              /\ st_pc' = "skip_check"
         ELSE /\ st_pc' = "aborted"
              /\ UNCHANGED st_start
    /\ UNCHANGED <<st_file, st_resume, st_progress, startOthers>>

\* lines 361-366 for the first cell of the loops: the subscript
\* self.progress['completed'] is outside the try of the cell
FirstSkipCheck ==
    /\ st_pc = "skip_check"
    /\ st_pc' = IF HasKey("completed") THEN "running" ELSE "aborted"
    /\ UNCHANGED <<st_file, st_resume, st_progress, st_start, startOthers>>

StartNext ==
    \/ LoadProgressFile
    \/ StartSetup
    \/ FirstSkipCheck

StartCall ==
    /\ SweepIdle
    /\ BrowserIdle
    /\ UnitsIdleExcept("start")
    /\ StartInit

StartSpec == StartCall /\ [][StartNext]_vars

WellFormedRecord(file) ==
    /\ file.state = "ok"
    /\ DOMAIN file.data = ProgressKeys

\* C26: for a missing progress file and for a file that does not hold a
\* well-formed record, the state after start-up is the default record, the
\* run is not aborted and its loops start at the first cell.
C26_ProgressLoad ==
    (st_pc \in {"setup", "skip_check", "running", "aborted"}
        /\ ~WellFormedRecord(st_file)) =>
        /\ st_progress = DefaultProgress
        /\ st_pc # "aborted"
        /\ st_pc = "running" =>
              st_start = [county |-> 0, market |-> 0, product |-> 0]

\* what holds of the two kinds of file _load_progress provides for
C26_MissingOrUnparsable ==
    (st_pc \in {"setup", "skip_check", "running", "aborted"}
        /\ st_file.state # "ok") =>
        /\ st_progress = DefaultProgress
        /\ st_pc # "aborted"
        /\ st_pc = "running" =>
              st_start = [county |-> 0, market |-> 0, product |-> 0]

(* -------------------- run_all of scrap_data.py ------------------------- *)
\* The sweep of scrap_data.py: no retry, no skip check.  set_filters and
\* scrape_table catch every exception themselves, so a cell ends by a
\* filter failure or with what scrape_table returned.

\* what scrape_table of scrap_data.py returns: None on every path, as its
\* truth test on a page's frame raises and a failed page is left out
ScrapeTableResults == {NoFrame}

variantOthers == <<sweepVars, browserVars, pageVars, finalVars, optVars,
                   sessionVars, startVars, cellVars, lateVars>>

variantLoop == <<v_county_idx, v_market_idx, v_product_idx>>
variantHistory == <<v_filtered, v_loop_starts, v_ends>>

VariantInit ==
    /\ v_resume \in BOOLEAN
    /\ v_progress \in {RecordOf(done) :
                          done \in PriorSeqs \cup {<<ForeignCell>>}}
    /\ start_index = [counties |-> 0, markets |-> 0, products |-> 0]
    /\ v_county_idx = 0
    /\ v_market_idx = 0
    /\ v_product_idx = 0
    /\ v_pc = "setup"
    /\ v_all_data = <<>>
    /\ v_filtered = <<>>
    /\ v_loop_starts = <<>>
    /\ v_ends = {}

\* list.index(x) if x in list else 0
IndexOrZero(list, x) == IF Contains(list, x) THEN IndexOf(list, x) ELSE 0

\* lines 907-916
VariantSetup ==
    /\ v_pc = "setup"
    /\ start_index' =
          IF v_resume /\ v_progress.last_county # NONE
            THEN [counties |-> IndexOrZero(counties, v_progress.last_county),
                  markets |-> IndexOrZero(markets, v_progress.last_market),
                  products |-> IndexOrZero(products, v_progress.last_product)]
            ELSE [counties |-> 0, markets |-> 0, products |-> 0]
    /\ v_county_idx' = start_index'.counties
    /\ v_pc' = "county_loop"
    /\ UNCHANGED <<v_resume, v_progress, v_market_idx, v_product_idx,
                   v_all_data, variantHistory, variantOthers>>

\* for county_idx in range(start_index['counties'], len(counties))
VariantCountyLoop ==
    /\ v_pc = "county_loop"
    /\ IF v_county_idx < Len(counties)
         THEN /\ v_market_idx' = start_index.markets
              /\ v_pc' = "market_loop"
         ELSE /\ v_pc' = "consolidate"
              /\ UNCHANGED v_market_idx
    /\ UNCHANGED <<v_resume, v_progress, start_index, v_county_idx,
                   v_product_idx, v_all_data, variantHistory, variantOthers>>

\* for market_idx in range(start_index['markets'], len(markets)); the range
\* of the product loop is taken when the loop is entered; after the market
\* loop line 959 resets the county start index
VariantMarketLoop ==
    /\ v_pc = "market_loop"
    /\ IF v_market_idx < Len(markets)
         THEN /\ v_product_idx' = start_index.products
              /\ v_loop_starts' =
                    Append(v_loop_starts,
                           <<v_county_idx, v_market_idx, start_index.products>>)
              /\ v_pc' = "product_loop"
              /\ UNCHANGED <<start_index, v_county_idx>>
         ELSE /\ start_index' = [start_index EXCEPT !.counties = 0]
              /\ v_county_idx' = v_county_idx + 1
              /\ v_pc' = "county_loop"
              /\ UNCHANGED <<v_product_idx, v_loop_starts>>
    /\ UNCHANGED <<v_resume, v_progress, v_market_idx, v_all_data,
                   v_filtered, v_ends, variantOthers>>

v_cell ==
    <<counties[v_county_idx + 1], markets[v_market_idx + 1],
      products[v_product_idx + 1]>>

\* _save_progress of scrap_data.py
VariantSaveProgress(record, c) ==
    [last_county |-> c[1], last_market |-> c[2], last_product |-> c[3],
     completed |-> Append(record.completed, c)]

\* the reset of line 953 left out
ResetProductsMutKeep(index) == index

\* line 953, the last statement of the body of the product loop
ResetProducts(index) == [index EXCEPT !.products = 0]

\* lines 926-953, one pass of the product loop: "continue" on a filter
\* failure skips the rest of the body, the reset of line 953 included
VariantCell ==
    /\ v_pc = "product_loop"
    /\ v_product_idx < Len(products)
    /\ v_filtered' = Append(v_filtered, v_cell)
    /\ \E filters_set \in BOOLEAN, d \in ScrapeTableResults :
          LET kept == filters_set /\ ~d.none /\ d.rows # <<>>
              end == IF ~filters_set THEN "filter_failed"
                     ELSE IF kept THEN "saved" ELSE "no_data"
          IN /\ v_all_data' = IF kept THEN Append(v_all_data, v_cell)
                                      ELSE v_all_data
             /\ v_progress' = IF kept
                                THEN VariantSaveProgress(v_progress, v_cell)
                                ELSE v_progress
             /\ start_index' = IF filters_set THEN ResetProducts(start_index)
                                ELSE start_index
             /\ v_ends' = IF Len(v_loop_starts) = 1
                            THEN v_ends \cup {end} ELSE v_ends
    /\ v_product_idx' = v_product_idx + 1
    /\ UNCHANGED <<v_resume, v_county_idx, v_market_idx, v_pc, v_loop_starts,
                   variantOthers>>

\* the product loop is exhausted; line 956 resets the market start index
VariantProductLoopEnd ==
    /\ v_pc = "product_loop"
    /\ v_product_idx >= Len(products)
    /\ start_index' = [start_index EXCEPT !.markets = 0]
    /\ v_market_idx' = v_market_idx + 1
    /\ v_pc' = "market_loop"
    /\ UNCHANGED <<v_resume, v_progress, v_county_idx, v_product_idx,
                   v_all_data, variantHistory, variantOthers>>

\* lines 961-968
VariantConsolidate ==
    /\ v_pc = "consolidate"
    /\ v_pc' = IF v_all_data # <<>> THEN "returned_frame" ELSE "returned_none"
    /\ UNCHANGED <<v_resume, v_progress, start_index, variantLoop,
                   v_all_data, variantHistory, variantOthers>>

VariantNext ==
    \/ VariantSetup
    \/ VariantCountyLoop
    \/ VariantMarketLoop
    \/ VariantCell
    \/ VariantProductLoopEnd
    \/ VariantConsolidate

VariantCall ==
    /\ SweepIdle
    /\ BrowserIdle
    /\ UnitsIdleExcept("variant")
    /\ VariantInit

VariantSpec == VariantCall /\ [][VariantNext]_vars

\* the cell the progress record names as scraped last
LastRecorded ==
    <<v_progress.last_county, v_progress.last_market, v_progress.last_product>>

\* C28: a resumed sweep does not pass the cell recorded last to set_filters
\* and does not append it to completed a second time.
C28_ResumeSkipsLastCell ==
    (v_resume /\ v_progress.last_county # NONE) =>
        /\ ~Contains(v_filtered, LastRecorded)
        /\ Occurrences(v_progress.completed, LastRecorded) <= 1

\* C29: on a resumed sweep every product loop after the first one starts at
\* index 0, however the cells of the first one ended.
C29_ResumeIndexFirstMarketOnly ==
    (v_resume /\ v_progress.last_county # NONE) =>
        \A i \in 2..Len(v_loop_starts) : v_loop_starts[i][3] = 0

\* when a cell of the first product loop got past set_filters, the later
\* product loops start at index 0
C29_AfterFiltersSet ==
    (v_ends \ {"filter_failed"} # {}) =>
        \A i \in 2..Len(v_loop_starts) : v_loop_starts[i][3] = 0

(* ---------------------- one cell on a reliable UI ---------------------- *)
\* The attempts of one cell in run_all of part_000 when every browser call
\* succeeds: set_filters returns True, the status element reports the rows
\* the query has, the table shows a page of them, _refresh_session returns.
cellOthers == <<sweepVars, browserVars, pageVars, finalVars, optVars,
                sessionVars, startVars, variantVars, lateVars>>

CellInit ==
    /\ rc_total \in 1..MaxEntries
    /\ rc_pc = "attempt"
    /\ rc_retry = 0
    /\ rc_optimal = 0
    /\ rc_df = 0
    /\ rc_outcome = "none"

\* lines 369-384: the while test, the first set_filters and the total,
\* which is not 0
CellSetFilters ==
    /\ rc_pc = "attempt"
    /\ RetryAllowed(rc_retry)
    /\ Truthy(<<rc_total>>)
    /\ rc_pc' = "optimize"
    /\ UNCHANGED <<rc_total, rc_retry, rc_optimal, rc_df, rc_outcome,
                   cellOthers>>

\* lines 386-393: the page size for the total and the second set_filters
CellOptimizeEntries ==
    /\ rc_pc = "optimize"
    /\ rc_optimal' = OptimizeEntries(<<rc_total>>)
    /\ rc_pc' = "scrape"
    /\ UNCHANGED <<rc_total, rc_retry, rc_df, rc_outcome, cellOthers>>

\* the rows of the page the table shows: scrape_table of part_000 reads the
\* table once and follows no pagination
ShownRows(page_size, total) == IF page_size <= total THEN page_size ELSE total

\* lines 396-416: scrape_table, the completeness check, and either the
\* save or the next attempt after a refresh
CellScrapeAndVerify ==
    /\ rc_pc = "scrape"
    /\ rc_df' = ShownRows(rc_optimal, rc_total)
    /\ IF VerifyDataCompleteness(
             [none |-> FALSE, rows |-> rc_df', cols |-> 1], rc_total)
         THEN /\ rc_outcome' = "saved"
              /\ rc_pc' = "done"
              /\ UNCHANGED rc_retry
         ELSE /\ rc_retry' = rc_retry + 1
              /\ rc_pc' = "attempt"
              /\ UNCHANGED rc_outcome
    /\ UNCHANGED <<rc_total, rc_optimal, cellOthers>>

\* the while test fails: the cell is left unsaved
CellRetriesExhausted ==
    /\ rc_pc = "attempt"
    /\ ~RetryAllowed(rc_retry)
    /\ rc_outcome' = "failed"
    /\ rc_pc' = "done"
    /\ UNCHANGED <<rc_total, rc_retry, rc_optimal, rc_df, cellOthers>>

CellNext ==
    \/ CellSetFilters
    \/ CellOptimizeEntries
    \/ CellScrapeAndVerify
    \/ CellRetriesExhausted

CellCall ==
    /\ SweepIdle
    /\ BrowserIdle
    /\ UnitsIdleExcept("cell")
    /\ CellInit

CellSpec == CellCall /\ [][CellNext]_vars

\* C30: on a reliable UI a cell with a total of at least 1 ends Saved, with
\* at least as many rows as the total.
C30_NoTruncation ==
    rc_pc = "done" =>
        /\ rc_outcome = "saved"
        /\ rc_df >= rc_total

\* the totals that do end Saved: those that fit the smallest page size and
\* those that are a page-size option
C30_SavedTotals ==
    rc_pc = "done" =>
        (rc_outcome = "saved" <=>
            (rc_total <= entry_options[1]
                \/ rc_total \in Range(entry_options)))
(* ============================ network_retry ============================ *)
\* The decorator network_retry(max_attempts, delay) of src/scrap_data.py and
\* one call of the wrapper it builds.  func is the environment: an
\* invocation returns a value, raises one of the exception classes the
\* except clause names (network-class), or raises another exception.  The
\* value an invocation returns is modelled by the number of the invocation.
MaxAttempts == 4
MaxDelay == 2

retryOthers == <<sweepVars, browserVars, pageVars, finalVars, optVars,
                 sessionVars, startVars, variantVars, cellVars, faultVars,
                 mainVars>>

RetryInit ==
    /\ nr_max \in 0..MaxAttempts
    /\ nr_delay \in 0..MaxDelay
    /\ nr_attempts = 0
    /\ nr_pc = "while"
    /\ nr_calls = <<>>
    /\ nr_slept = <<>>
    /\ nr_result = [kind |-> "none", value |-> 0]

WrapperEnds(kind, value) ==
    /\ nr_pc' = "ended"
    /\ nr_result' = [kind |-> kind, value |-> value]

\* while attempts < max_attempts; past the loop the wrapper returns None
WhileTest ==
    /\ nr_pc = "while"
    /\ IF nr_attempts < nr_max
         THEN nr_pc' = "call" /\ UNCHANGED nr_result
         ELSE WrapperEnds("returned_none", 0)
    /\ UNCHANGED <<nr_max, nr_delay, nr_attempts, nr_calls, nr_slept,
                   retryOthers>>

\* return func(*args, **kwargs): the value is returned, an exception that
\* the except clause does not name leaves the wrapper
InvokeFunc ==
    /\ nr_pc = "call"
    /\ \E does \in {"returns", "network_error", "other_error"} :
          /\ nr_calls' = Append(nr_calls, does)
          /\ CASE does = "returns" ->
                     WrapperEnds("returned", Len(nr_calls) + 1)
               [] does = "other_error" ->
                     WrapperEnds("raised_other", Len(nr_calls) + 1)
               [] does = "network_error" ->
                     nr_pc' = "except" /\ UNCHANGED nr_result
    /\ UNCHANGED <<nr_max, nr_delay, nr_attempts, nr_slept, retryOthers>>

\* ExceptNetwork without the raise on the last attempt
ExceptNetworkMutNoReraise ==
    /\ nr_pc = "except"
    /\ nr_attempts' = nr_attempts + 1
    /\ nr_pc' = "sleep"
    /\ UNCHANGED <<nr_max, nr_delay, nr_calls, nr_slept, nr_result,
                   retryOthers>>

\* the except clause: attempts += 1, and raise when that was the last one
ExceptNetwork ==
    /\ nr_pc = "except"
    /\ nr_attempts' = nr_attempts + 1
    /\ IF nr_attempts' = nr_max
         THEN WrapperEnds("raised_network", Len(nr_calls))
         ELSE nr_pc' = "sleep" /\ UNCHANGED nr_result
    /\ UNCHANGED <<nr_max, nr_delay, nr_calls, nr_slept, retryOthers>>

\* the warning and time.sleep(delay * attempts)
SleepBeforeRetry ==
    /\ nr_pc = "sleep"
    /\ nr_slept' = Append(nr_slept, nr_delay * nr_attempts)
    /\ nr_pc' = "while"
    /\ UNCHANGED <<nr_max, nr_delay, nr_attempts, nr_calls, nr_result,
                   retryOthers>>

RetryNext ==
    \/ WhileTest
    \/ InvokeFunc
    \/ ExceptNetwork
    \/ SleepBeforeRetry

\* a call of a wrapped function with everything else at rest
RetryCall ==
    /\ SweepIdle
    /\ BrowserIdle
    /\ UnitsIdleExcept("retry")
    /\ RetryInit

RetrySpec == RetryCall /\ [][RetryNext]_vars

\* C39: func is invoked at most max_attempts times; every invocation that
\* was followed by another raised a network-class error; the wrapper
\* returns the value of the invocation that returned, lets an error that is
\* not network-class out of the invocation that raised it, and re-raises a
\* network-class error exactly when it came from invocation number
\* max_attempts; without any invocation (max_attempts = 0) it returns None.
C39_RetryPolicy ==
    /\ Len(nr_calls) <= nr_max
    /\ \A i \in 1..(Len(nr_calls) - 1) : nr_calls[i] = "network_error"
    /\ nr_attempts <= Len(nr_calls)
    /\ nr_pc = "ended" =>
          IF nr_calls = <<>>
            THEN nr_max = 0 /\ nr_result.kind = "returned_none"
            ELSE LET n == Len(nr_calls) IN
                 /\ nr_result.value = n
                 /\ nr_calls[n] = "returns" => nr_result.kind = "returned"
                 /\ nr_calls[n] = "other_error" =>
                        nr_result.kind = "raised_other"
                 /\ nr_calls[n] = "network_error" =>
                        (n = nr_max /\ nr_result.kind = "raised_network")
    /\ nr_pc # "ended" => nr_result.kind = "none"

\* the third invocation returned after two network-class errors
C39_Witness ==
    /\ nr_pc = "ended"
    /\ nr_max = 3
    /\ nr_calls = <<"network_error", "network_error", "returns">>
    /\ nr_result = [kind |-> "returned", value |-> 3]
    /\ Len(nr_slept) = 2

\* the last allowed invocation raised a network-class error
C39_WitnessReraised ==
    /\ nr_pc = "ended"
    /\ nr_max = 2
    /\ nr_calls = <<"network_error", "network_error">>
    /\ nr_result.kind = "raised_network"

====
